---- MODULE Spec2Model ----
(***************************************************************************)
(* A model of the CBOR codec of ext/aws_crt/src/cbor.rs: the encoder       *)
(* (write_head, encode_value), the decoder (decode_value and its helpers), *)
(* the stateful Encoder and Decoder objects and the module-level encode    *)
(* and decode functions.                                                   *)
(*                                                                         *)
(* Numbers.  TLC's integers are 32 bits wide, the codec's are 64 bits and  *)
(* wider, so an unsigned integer of any size is a sequence of base-256     *)
(* digits, least significant first, with no most-significant zero digit    *)
(* (zero is <<>>).  A u64 is such a sequence of at most 8 digits.  Buffer  *)
(* positions and lengths of the (short) buffers of the model are plain     *)
(* integers.  usize is 64 bits wide.                                       *)
(*                                                                         *)
(* Host values are tagged tuples: <<"Nil">>, <<"Bool", b>>,                *)
(* <<"Int", negative, magnitude>>, <<"Str", encoding, bytes>>,             *)
(* <<"Sym", bytes>>, <<"Array", items>>, <<"Hash", pairs>>,                *)
(* <<"Tagged", tag, inner>>, <<"Float", width, bytes>>, <<"Time", secs>>,  *)
(* <<"BigDecimal", kind, sign, digits, exponent>>, <<"Object">>,           *)
(* <<"Data">>.                                                             *)
(***************************************************************************)
EXTENDS Integers, Sequences, FiniteSets, TLC

VARIABLES
  overflow_checks, \* build profile: TRUE = debug (checked +), FALSE = release (wrapping +)
  op,              \* codec: the module-level operation of this run
  value,           \* codec: the host value handed to encode
  bytes,           \* codec: the byte string handed to decode
  ret,             \* codec: what the last call returned
  pc,              \* codec: position in the run
  enc_buf,         \* Encoder.buf
  enc_added,       \* Encoder: the values the successful add calls were given (history)
  enc_ret,         \* Encoder: what the last add / bytes call returned
  enc_prev,        \* Encoder: the buffer before the last call (history)
  dec_data,        \* Decoder.data
  dec_pos,         \* Decoder.pos
  dec_ret,         \* Decoder: what the last decode call returned
  dec_calls,       \* Decoder: the number of decode calls made (history)
  dec_values,      \* Decoder: the values whose encodings make up its input (history)
  statics,         \* the static mut TAGGED_CLASS, TIME_CLASS, BIGDECIMAL_CLASS,
                   \* BIGDECIMAL_LOADED, UTF8_ENCINDEX, BINARY_ENCINDEX
  bigdecimal_defined, \* the host: the BigDecimal library is loaded (defined?(BigDecimal))
  state,           \* request: the RequestState under the Mutex
  crt,             \* request: position of the CRT event loop thread
  thread,          \* request: position of the thread in make_request / make_streaming_request
  headers_delivered, \* request: the local headers_delivered of make_streaming_request
  drained,         \* request: the tuple read under the lock in the streaming loop
  calls,           \* request: the calls of on_headers and on_chunk made (history)
  http_ret,        \* request: what make_request / make_streaming_request returned
  ctx,             \* request: the RequestContext box, "live" or "freed"
  pushed,          \* request: the chunks on_response_body was called with (history)
  released,        \* request: the calls of release_connection made (history)
  completions,     \* request: the times the complete flag was set (history)
  ctx_read_after_cleanup \* request: a callback read the context after cleanup (history)

codec == <<overflow_checks, op, value, bytes, ret, pc, enc_buf, enc_added, enc_ret,
           enc_prev, dec_data, dec_pos, dec_ret, dec_calls, dec_values,
           statics, bigdecimal_defined>>

request == <<state, crt, thread, headers_delivered, drained, calls, http_ret, ctx, pushed,
             released, completions, ctx_read_after_cleanup>>

vars == <<codec, request>>

(***************************************************************************)
(* Bytes and unsigned integers of any width                                *)
(***************************************************************************)
Byte == 0..255

\* a | b on two bytes
RECURSIVE BitOr(_, _)
BitOr(a, b) ==
  IF a = 0 THEN b
  ELSE IF b = 0 THEN a
  ELSE 2 * BitOr(a \div 2, b \div 2) + (IF (a % 2 = 1) \/ (b % 2 = 1) THEN 1 ELSE 0)

Reverse(s) == [i \in 1..Len(s) |-> s[Len(s) + 1 - i]]

\* drop the most-significant zero digits
RECURSIVE Norm(_)
Norm(d) ==
  IF d = <<>> THEN <<>>
  ELSE IF d[Len(d)] = 0 THEN Norm(SubSeq(d, 1, Len(d) - 1))
  ELSE d

\* a small non-negative integer as digits
RECURSIVE FromInt(_)
FromInt(i) == IF i = 0 THEN <<>> ELSE <<i % 256>> \o FromInt(i \div 256)

\* digits of at most 3 digits as an integer
RECURSIVE ToInt(_)
ToInt(d) == IF d = <<>> THEN 0 ELSE d[1] + 256 * ToInt(Tail(d))

Digit(d, k) == IF k + 1 <= Len(d) THEN d[k + 1] ELSE 0

\* a < b
RECURSIVE NatLtFrom(_, _, _)
NatLtFrom(a, b, k) ==
  IF k = 0 THEN FALSE
  ELSE IF a[k] # b[k] THEN a[k] < b[k]
  ELSE NatLtFrom(a, b, k - 1)

NatLt(a, b) ==
  IF Len(a) # Len(b) THEN Len(a) < Len(b) ELSE NatLtFrom(a, b, Len(a))

NatLeq(a, b) == ~NatLt(b, a)

\* a + b
RECURSIVE NatAddFrom(_, _, _, _)
NatAddFrom(a, b, k, carry) ==
  IF k >= Len(a) /\ k >= Len(b)
  THEN IF carry = 0 THEN <<>> ELSE <<carry>>
  ELSE LET s == Digit(a, k) + Digit(b, k) + carry
       IN  <<s % 256>> \o NatAddFrom(a, b, k + 1, s \div 256)

NatAdd(a, b) == NatAddFrom(a, b, 0, 0)

\* a - b, for b <= a
RECURSIVE NatSubFrom(_, _, _, _)
NatSubFrom(a, b, k, borrow) ==
  IF k >= Len(a) THEN <<>>
  ELSE LET s == Digit(a, k) - Digit(b, k) - borrow
       IN  <<(s + 256) % 256>> \o NatSubFrom(a, b, k + 1, IF s < 0 THEN 1 ELSE 0)

NatSub(a, b) == Norm(NatSubFrom(a, b, 0, 0))

One == <<1>>

\* value as u64: the low 64 bits
AsU64(d) == Norm(SubSeq(d, 1, IF Len(d) < 8 THEN Len(d) ELSE 8))

\* v.to_be_bytes() of an unsigned integer of `width` bytes
ToBE(d, width) == [i \in 1..width |-> Digit(d, width - i)]

\* uN::from_be_bytes(b)
FromBE(b) == Norm(Reverse(b))

\* the number of bits of a byte
RECURSIVE BitLen8(_)
BitLen8(b) == IF b = 0 THEN 0 ELSE 1 + BitLen8(b \div 2)

\* Integer#bit_length of a non-negative integer
BitLength(d) == IF d = <<>> THEN 0 ELSE 8 * (Len(d) - 1) + BitLen8(d[Len(d)])

\* 2^k
P2(k) == [i \in 1..(k \div 8) + 1 |-> IF i = (k \div 8) + 1 THEN 2 ^ (k % 8) ELSE 0]

\* n >> k
NatShr(n, k) ==
  LET q == k \div 8
      r == 2 ^ (k % 8)
      d == IF q < Len(n) THEN SubSeq(n, q + 1, Len(n)) ELSE <<>>
  IN  Norm([i \in 1..Len(d) |->
              (d[i] \div r) + (IF i < Len(d) THEN (d[i + 1] % r) * (256 \div r) ELSE 0)])

\* n << k
NatShl(n, k) ==
  LET q == k \div 8
      r == 2 ^ (k % 8)
  IN  Norm([i \in 1..q |-> 0]
             \o [i \in 1..Len(n) + 1 |->
                   (IF i <= Len(n) THEN (n[i] * r) % 256 ELSE 0)
                     + (IF i >= 2 THEN (n[i - 1] * r) \div 256 ELSE 0)])

\* the low k bits of n are zero
LowBitsZero(n, k) == NatShl(NatShr(n, k), k) = n

\* n * k + c, for small k and c
RECURSIVE NatMulAddFrom(_, _, _, _)
NatMulAddFrom(n, k, i, carry) ==
  IF i > Len(n) THEN FromInt(carry)
  ELSE LET t == n[i] * k + carry
       IN  <<t % 256>> \o NatMulAddFrom(n, k, i + 1, t \div 256)

NatMulAdd(n, k, c) == Norm(NatMulAddFrom(n, k, 1, c))

(***************************************************************************)
(* 64-bit and 32-bit floats, as their big-endian bytes                     *)
(***************************************************************************)
F64Sign(b) == b[1] \div 128
F64Exp(b) == (b[1] % 128) * 16 + b[2] \div 16
F64Mant(b) == Norm(<<b[8], b[7], b[6], b[5], b[4], b[3], b[2] % 16>>)

\* f64::is_nan
is_nan(b) == F64Exp(b) = 2047 /\ F64Mant(b) # <<>>

\* the bytes of the f32 of a sign, an exponent field and a 23-bit fraction
F32Bytes(sign, exp, frac) ==
  <<sign * 128 + exp \div 2, (exp % 2) * 128 + Digit(frac, 2), Digit(frac, 1), Digit(frac, 0)>>

\* `val as f32 as f64 == val`: the f64 is an f32 (a zero, an infinity, a
\* normal or a subnormal f32)
F32Exact(b) ==
  LET e == F64Exp(b) - 1023
      m == F64Mant(b)
  IN  CASE F64Exp(b) = 2047 -> m = <<>>
        [] F64Exp(b) = 0 -> m = <<>>
        [] e > 127 -> FALSE
        [] e \in -126..127 -> LowBitsZero(m, 29)
        [] e \in -149..-127 -> LowBitsZero(NatAdd(m, P2(52)), (0 - e) - 97)
        [] OTHER -> FALSE

\* (val as f32).to_be_bytes(), of a NaN (the fraction cut to its 23 high bits,
\* quiet) or of an f64 that is an f32
AsF32Bytes(b) ==
  LET e == F64Exp(b) - 1023
      m == F64Mant(b)
      t == NatShr(m, 29)
  IN  CASE is_nan(b) ->
             F32Bytes(F64Sign(b), 255, <<Digit(t, 0), Digit(t, 1), BitOr(Digit(t, 2), 64)>>)
        [] F64Exp(b) = 2047 -> F32Bytes(F64Sign(b), 255, <<>>)
        [] F64Exp(b) = 0 -> F32Bytes(F64Sign(b), 0, <<>>)
        [] e \in -126..127 -> F32Bytes(F64Sign(b), e + 127, t)
        [] e \in -149..-127 ->
             F32Bytes(F64Sign(b), 0, NatShr(NatAdd(m, P2(52)), (0 - e) - 97))

\* Integer#to_f of an integer below 2^53 in magnitude: the f64's bytes
IntToF64(v) ==
  LET n == v[3]
      p == BitLength(n) - 1
      frac == NatSub(NatShl(n, 52 - p), P2(52))
      exp == 1023 + p
      sign == IF v[2] THEN 1 ELSE 0
  IN  IF n = <<>> THEN <<0, 0, 0, 0, 0, 0, 0, 0>>
      ELSE <<sign * 128 + exp \div 16, (exp % 16) * 16 + Digit(frac, 6)>>
             \o [i \in 1..6 |-> Digit(frac, 6 - i)]

(***************************************************************************)
(* Host values                                                             *)
(***************************************************************************)
Nil == <<"Nil">>
Bool(b) == <<"Bool", b>>
Integer(neg, mag) == <<"Int", neg, mag>>
Str(enc, b) == <<"Str", enc, b>>
Sym(b) == <<"Sym", b>>
Array(items) == <<"Array", items>>
Hash(pairs) == <<"Hash", pairs>>
Tagged(tag, inner) == <<"Tagged", tag, inner>>
Object == <<"Object">>
\* a RUBY_T_DATA object that is no Tagged, no Time and no BigDecimal
Data == <<"Data">>
\* a Float: the 8 bytes of the f64 (of a decoded float: the bytes read, 2, 4 or 8)
Float(b) == <<"Float", Len(b), b>>
\* a Time: the number it is at (encode reads its to_f)
Time(secs) == <<"Time", secs>>
\* a finite BigDecimal, as split returns it: sign, digit string, exponent
BigDecimal(sign, digits, exp) == <<"BigDecimal", "finite", sign, digits, exp>>
\* BigDecimal("Infinity"), BigDecimal("-Infinity"): infinite? is 1 or -1
BigDecimalInfinity(sign) == <<"BigDecimal", "infinite", sign>>
BigDecimalNaN == <<"BigDecimal", "nan">>

\* FIXNUM_P: the integer is an immediate of 63 bits, -2^62 .. 2^62 - 1
FIXNUM_P(v) ==
  LET m == IF v[2] THEN NatSub(v[3], One) ELSE v[3]
  IN  Len(m) < 8 \/ (Len(m) = 8 /\ m[8] < 64)

\* i64::try_convert succeeds
FitsI64(v) ==
  LET m == IF v[2] THEN NatSub(v[3], One) ELSE v[3]
  IN  Len(m) < 8 \/ (Len(m) = 8 /\ m[8] < 128)

\* u64::try_convert succeeds
FitsU64(v) == ~v[2] /\ Len(v[3]) <= 8

(***************************************************************************)
(* CBOR constants                                                          *)
(***************************************************************************)
MAJOR_UNSIGNED == 0
MAJOR_NEGATIVE == 32
MAJOR_BYTES == 64
MAJOR_TEXT == 96
MAJOR_ARRAY == 128
MAJOR_MAP == 160
MAJOR_TAG == 192
MAJOR_SIMPLE == 224

FLOAT_MARKER == 250
DOUBLE_MARKER == 251

TAG_EPOCH == 1
TAG_BIGNUM == 2
TAG_NEG_BIGNUM == 3
TAG_BIGDEC == 4

(***************************************************************************)
(* Encoding                                                                *)
(***************************************************************************)
\* A Result the code binds with `let x = f()?;` is bound here by a local
\* operator with(x) applied to f(): an Err (or a panic) is returned as it is.
\* the encoder's results: the buffer as the call leaves it, and the error if any
EncOk(buf) == <<"ok", buf>>
EncErr(kind, buf) == <<"err", kind, buf>>

\* write_head with the first range one too wide: 0..=24 packed into the head byte
write_head_packs_24(buf, major, v) ==
  IF NatLeq(v, <<24>>) THEN Append(buf, BitOr(major, ToInt(v)))
  ELSE IF NatLeq(v, <<255>>) THEN Append(buf, BitOr(major, 24)) \o <<ToInt(v)>>
  ELSE IF NatLeq(v, <<255, 255>>) THEN Append(buf, BitOr(major, 25)) \o ToBE(v, 2)
  ELSE IF NatLeq(v, <<255, 255, 255, 255>>) THEN Append(buf, BitOr(major, 26)) \o ToBE(v, 4)
  ELSE Append(buf, BitOr(major, 27)) \o ToBE(v, 8)

write_head(buf, major, v) ==
  IF NatLeq(v, <<23>>) THEN Append(buf, BitOr(major, ToInt(v)))
  ELSE IF NatLeq(v, <<255>>) THEN Append(buf, BitOr(major, 24)) \o <<ToInt(v)>>
  ELSE IF NatLeq(v, <<255, 255>>) THEN Append(buf, BitOr(major, 25)) \o ToBE(v, 2)
  ELSE IF NatLeq(v, <<255, 255, 255, 255>>) THEN Append(buf, BitOr(major, 26)) \o ToBE(v, 4)
  ELSE Append(buf, BitOr(major, 27)) \o ToBE(v, 8)

\* val: i128, as an Int value
encode_integer(buf, val) ==
  IF val[2]
  THEN write_head(buf, MAJOR_NEGATIVE, AsU64(NatSub(val[3], One)))
  ELSE write_head(buf, MAJOR_UNSIGNED, AsU64(val[3]))

encode_text(buf, b) == write_head(buf, MAJOR_TEXT, FromInt(Len(b))) \o b

encode_double(buf, val) == Append(buf, DOUBLE_MARKER) \o val

\* encode_auto_float without the NaN arm: a NaN fails the comparison and is
\* written as a double
encode_auto_float_without_nan_arm(buf, val) ==
  IF ~is_nan(val) /\ F32Exact(val) THEN Append(buf, FLOAT_MARKER) \o AsF32Bytes(val)
  ELSE Append(buf, DOUBLE_MARKER) \o val

encode_auto_float(buf, val) ==
  IF is_nan(val) THEN Append(buf, FLOAT_MARKER) \o AsF32Bytes(val)
  ELSE IF F32Exact(val) THEN Append(buf, FLOAT_MARKER) \o AsF32Bytes(val)
  ELSE Append(buf, DOUBLE_MARKER) \o val

\* a small integer as an Int value
IntOf(i) == Integer(i < 0, FromInt(IF i < 0 THEN 0 - i ELSE i))

\* digits_str.parse::<i128>().unwrap_or(0): the digits as a number, 0 when
\* it is above i128::MAX
RECURSIVE ParseDigits(_, _)
ParseDigits(digits, acc) ==
  IF digits = <<>> THEN acc
  ELSE LET next == NatMulAdd(acc, 10, Head(digits))
       IN  IF next = <<>> THEN ParseDigits(Tail(digits), <<>>)
           ELSE ParseDigits(Tail(digits), next)

ParseI128OrZero(digits) ==
  LET n == ParseDigits(digits, <<>>)
  IN  IF Len(n) < 16 \/ (Len(n) = 16 /\ n[16] < 128) THEN n ELSE <<>>

\* f64::INFINITY, f64::NEG_INFINITY, f64::NAN
F64_INFINITY == <<127, 240, 0, 0, 0, 0, 0, 0>>
F64_NEG_INFINITY == <<255, 240, 0, 0, 0, 0, 0, 0>>
F64_NAN == <<127, 248, 0, 0, 0, 0, 0, 0>>

encode_big_decimal(buf, v) ==
  IF v[2] = "infinite"
  THEN encode_auto_float(buf, IF v[3] >= 0 THEN F64_INFINITY ELSE F64_NEG_INFINITY)
  ELSE IF v[2] = "nan" THEN encode_auto_float(buf, F64_NAN)
  ELSE LET sign == v[3]
           digits_str == v[4]
           exp == v[5]
           cbor_exp == exp - Len(digits_str)
           parsed == ParseI128OrZero(digits_str)
           mantissa == Integer(sign < 0 /\ parsed # <<>>, parsed)
       IN  encode_integer(
             encode_integer(
               write_head(write_head(buf, MAJOR_TAG, FromInt(TAG_BIGDEC)), MAJOR_ARRAY, <<2>>),
               IntOf(cbor_exp)),
             mantissa)

\* Time#to_f: the f64 of the number the time is at
to_f(t) ==
  CASE t[2][1] = "Float" /\ t[2][2] = 8 -> t[2][3]
    [] t[2][1] = "Int" /\ BitLength(t[2][3]) <= 53 -> IntToF64(t[2])

\* encode_ruby_bignum writing abs(v) under Tag 3
encode_ruby_bignum_abs_magnitude(buf, v) ==
  IF FitsI64(v) THEN encode_integer(buf, v)
  ELSE IF FitsU64(v) THEN write_head(buf, MAJOR_UNSIGNED, v[3])
  ELSE LET magnitude == v[3]
           byte_count == (BitLength(magnitude) + 7) \div 8
           mag_bytes == [i \in 1..byte_count |-> Digit(magnitude, byte_count - i)]
           tag == IF v[2] THEN TAG_NEG_BIGNUM ELSE TAG_BIGNUM
       IN  write_head(write_head(buf, MAJOR_TAG, FromInt(tag)),
                      MAJOR_BYTES, FromInt(Len(mag_bytes))) \o mag_bytes

encode_ruby_bignum(buf, v) ==
  IF FitsI64(v) THEN encode_integer(buf, v)
  ELSE IF FitsU64(v) THEN write_head(buf, MAJOR_UNSIGNED, v[3])
  ELSE LET negative == v[2]
           magnitude == IF negative THEN NatSub(v[3], One) ELSE v[3]
           bit_length == BitLength(magnitude)
           byte_count == (bit_length + 7) \div 8
           mag_bytes == [i \in 1..byte_count |-> Digit(magnitude, byte_count - i)]
           tag == IF negative THEN TAG_NEG_BIGNUM ELSE TAG_BIGNUM
       IN  write_head(write_head(buf, MAJOR_TAG, FromInt(tag)),
                      MAJOR_BYTES, FromInt(Len(mag_bytes))) \o mag_bytes

RECURSIVE encode_value(_, _)

\* the loop of the array arm closing the array with a break byte
RECURSIVE encode_array_items_with_break(_, _, _)
encode_array_items_with_break(buf, items, i) ==
  IF i > Len(items) THEN EncOk(Append(buf, 255))
  ELSE LET with(r) ==
             IF r[1] # "ok" THEN r ELSE encode_array_items_with_break(r[2], items, i + 1)
       IN  with(encode_value(buf, items[i]))

\* the loop of the RUBY_T_ARRAY arm: for i in 0..len { encode_value(elem)? }
RECURSIVE encode_array_items(_, _, _)
encode_array_items(buf, items, i) ==
  IF i > Len(items) THEN EncOk(buf)
  ELSE LET with(r) == IF r[1] # "ok" THEN r ELSE encode_array_items(r[2], items, i + 1)
       IN  with(encode_value(buf, items[i]))

\* one call of the rb_hash_foreach callback: the key, then the value
hash_foreach_cb(buf, key, val) ==
  LET with(k) == IF k[1] # "ok" THEN k ELSE encode_value(k[2], val)
  IN  with(encode_value(buf, key))

\* rb_hash_foreach with a callback that returns 0 (continue) after an error: the
\* later pairs are encoded, and the first error is reported at the end
RECURSIVE rb_hash_foreach_never_stops(_, _, _)
rb_hash_foreach_never_stops(buf, pairs, i) ==
  IF i > Len(pairs) THEN EncOk(buf)
  ELSE LET with(r) ==
             LET rest(t) == IF r[1] = "ok" \/ t[1] # "ok" THEN t ELSE EncErr(r[2], t[2])
             IN  rest(rb_hash_foreach_never_stops(IF r[1] = "ok" THEN r[2] ELSE r[3],
                                                  pairs, i + 1))
       IN  with(hash_foreach_cb(buf, pairs[i][1], pairs[i][2]))

\* rb_hash_foreach: the callback on every pair in insertion order, stopping at
\* the first call that returns 1
RECURSIVE rb_hash_foreach(_, _, _)
rb_hash_foreach(buf, pairs, i) ==
  IF i > Len(pairs) THEN EncOk(buf)
  ELSE LET with(r) == IF r[1] # "ok" THEN r ELSE rb_hash_foreach(r[2], pairs, i + 1)
       IN  with(hash_foreach_cb(buf, pairs[i][1], pairs[i][2]))

encode_value(buf, raw) ==
  CASE raw[1] = "Nil" -> EncOk(write_head(buf, MAJOR_SIMPLE, <<22>>))
    [] raw[1] = "Bool" ->
         EncOk(write_head(buf, MAJOR_SIMPLE, IF raw[2] THEN <<21>> ELSE <<20>>))
    [] raw[1] = "Int" ->
         IF FIXNUM_P(raw) THEN EncOk(encode_integer(buf, raw))
         ELSE EncOk(encode_ruby_bignum(buf, raw))
    [] raw[1] = "Str" ->
         IF raw[2] = "binary"
         THEN EncOk(write_head(buf, MAJOR_BYTES, FromInt(Len(raw[3]))) \o raw[3])
         ELSE EncOk(write_head(buf, MAJOR_TEXT, FromInt(Len(raw[3]))) \o raw[3])
    [] raw[1] = "Array" ->
         encode_array_items(write_head(buf, MAJOR_ARRAY, FromInt(Len(raw[2]))), raw[2], 1)
    [] raw[1] = "Hash" ->
         rb_hash_foreach(write_head(buf, MAJOR_MAP, FromInt(Len(raw[2]))), raw[2], 1)
    [] raw[1] = "Float" -> EncOk(encode_auto_float(buf, raw[3]))
    [] raw[1] = "Sym" -> EncOk(encode_text(buf, raw[2]))
    [] raw[1] = "Tagged" -> encode_value(write_head(buf, MAJOR_TAG, raw[2]), raw[3])
    [] raw[1] = "Time" ->
         EncOk(encode_double(write_head(buf, MAJOR_TAG, FromInt(TAG_EPOCH)), to_f(raw)))
    [] raw[1] = "BigDecimal" -> EncOk(encode_big_decimal(buf, raw))
    [] raw[1] = "Data" -> EncErr("UnknownTypeError", buf)
    [] OTHER -> EncErr("UnknownTypeError", buf)

\* AwsCrt::Cbor.encode
rb_encode(v) ==
  LET with(r) == IF r[1] = "ok" THEN <<"ok", r[2]>> ELSE <<"err", r[2]>>
  IN  with(encode_value(<<>>, v))

(***************************************************************************)
(* The cached class references and encoding indexes                        *)
(***************************************************************************)
\* the statics as they are declared: all 0 (written "0" here, a class reference
\* and an encoding index being written as the name of the class and of the
\* encoding), BIGDECIMAL_LOADED false
StaticsDeclared ==
  [TAGGED_CLASS |-> "0", TIME_CLASS |-> "0", BIGDECIMAL_CLASS |-> "0",
   BIGDECIMAL_LOADED |-> FALSE, UTF8_ENCINDEX |-> "0", BINARY_ENCINDEX |-> "0"]

\* cache_classes: TIME_CLASS, the encoding indexes, and BigDecimal when the
\* library is loaded
cache_classes(st, defined) ==
  [st EXCEPT !.TIME_CLASS = "Time",
             !.BIGDECIMAL_CLASS = IF defined THEN "BigDecimal" ELSE @,
             !.BIGDECIMAL_LOADED = IF defined THEN TRUE ELSE @,
             !.UTF8_ENCINDEX = "UTF-8", !.BINARY_ENCINDEX = "ASCII-8BIT"]

\* init: TAGGED_CLASS, then cache_classes
init(st, defined) == cache_classes([st EXCEPT !.TAGGED_CLASS = "AwsCrt::Cbor::Tagged"], defined)

\* the RUBY_T_DATA arm of encode_value, for a value that is no Tagged and no
\* Time: `bd_class` is looked up, and cached when it was not and the library
\* is loaded by now
bd_class_lookup(st, defined) ==
  IF st.BIGDECIMAL_LOADED THEN st
  ELSE IF defined THEN [st EXCEPT !.BIGDECIMAL_CLASS = "BigDecimal", !.BIGDECIMAL_LOADED = TRUE]
  ELSE st

\* the statics as a call of encode_value leaves them: the values are visited
\* in the order the encoder visits them, up to the first that fails
RECURSIVE encode_value_statics(_, _, _)

RECURSIVE encode_items_statics(_, _, _, _)
encode_items_statics(st, defined, items, i) ==
  IF i > Len(items) THEN st
  ELSE LET with(after) ==
             IF encode_value(<<>>, items[i])[1] # "ok" THEN after
             ELSE encode_items_statics(after, defined, items, i + 1)
       IN  with(encode_value_statics(st, defined, items[i]))

encode_value_statics(st, defined, raw) ==
  CASE raw[1] \in {"BigDecimal", "Data"} -> bd_class_lookup(st, defined)
    [] raw[1] = "Array" -> encode_items_statics(st, defined, raw[2], 1)
    [] raw[1] = "Hash" ->
         encode_items_statics(st, defined,
                              [i \in 1..2 * Len(raw[2]) |-> raw[2][(i + 1) \div 2][2 - (i % 2)]], 1)
    [] raw[1] = "Tagged" -> encode_value_statics(st, defined, raw[3])
    [] OTHER -> st

(***************************************************************************)
(* Decoding                                                                *)
(*                                                                         *)
(* `pos` is the 0-based cursor of the code: data[p] there is data[p + 1]   *)
(* here.  A decoding function returns <<"ok", value, pos>> (the value and  *)
(* the cursor after it), <<"err", kind, requested, available>> (the Ruby   *)
(* exception raised; the two numbers are those of the OutOfBytesError and  *)
(* ExtraBytesError messages) or <<"panic", message>> (a Rust panic).       *)
(***************************************************************************)
DecOk(v, pos) == <<"ok", v, pos>>
DecErr(kind) == <<"err", kind, <<>>, 0>>
OutOfBytes(n, available) == <<"err", "OutOfBytesError", n, available>>
Panic(what) == <<"panic", what>>

dec_peek(data, pos) ==
  IF pos >= Len(data) THEN OutOfBytes(One, Len(data) - pos)
  ELSE DecOk(data[pos + 1], pos)

\* n: usize.  `*pos + n` panics on overflow when overflow checks are compiled
\* in, and wraps when they are not; a slice whose start exceeds its end panics.
dec_take(data, pos, n) ==
  LET sum == NatAdd(FromInt(pos), n)
      new_pos == AsU64(sum)
  IN  IF Len(sum) > 8 /\ overflow_checks THEN Panic("attempt to add with overflow")
      ELSE IF NatLt(FromInt(Len(data)), new_pos) THEN OutOfBytes(n, Len(data) - pos)
      ELSE IF ToInt(new_pos) < pos THEN Panic("slice index starts after its end")
      ELSE DecOk(SubSeq(data, pos + 1, ToInt(new_pos)), ToInt(new_pos))

\* <<"ok", <<major, additional info>>, pos>>
dec_read_info(data, pos) ==
  LET with(b) == IF b[1] # "ok" THEN b ELSE DecOk(<<b[2][1] \div 32, b[2][1] % 32>>, b[3])
  IN  with(dec_take(data, pos, One))

dec_read_count(data, pos, ai) ==
  IF ai <= 23 THEN DecOk(FromInt(ai), pos)
  ELSE IF ai \in 24..27
  THEN LET with(b) == IF b[1] # "ok" THEN b ELSE DecOk(FromBE(b[2]), b[3])
       IN  with(dec_take(data, pos, FromInt(CASE ai = 24 -> 1 [] ai = 25 -> 2
                                                 [] ai = 26 -> 4 [] ai = 27 -> 8)))
  ELSE DecErr("UnexpectedAdditionalInformationError")

\* the head of an item: dec_read_info, then dec_read_count;
\* <<"ok", <<major, count>>, pos>>
dec_read_head(data, pos) ==
  LET with_info(i) ==
        LET with_count(c) == IF c[1] # "ok" THEN c ELSE DecOk(<<i[2][1], c[2]>>, c[3])
        IN  IF i[1] # "ok" THEN i ELSE with_count(dec_read_count(data, i[3], i[2][2]))
  IN  with_info(dec_read_info(data, pos))

\* decode_integer_raw converting every count with `val as i64`
decode_integer_raw_as_i64(data, pos) ==
  LET wraps(val) == ~NatLt(val, P2(63))
      with(h) ==
        IF h[1] # "ok" THEN h
        ELSE CASE h[2][1] = 0 ->
                    IF wraps(h[2][2])
                    THEN DecOk(Integer(TRUE, NatSub(P2(64), h[2][2])), h[3])
                    ELSE DecOk(Integer(FALSE, h[2][2]), h[3])
               [] h[2][1] = 1 ->
                    IF wraps(h[2][2])
                    THEN DecOk(Integer(FALSE, NatSub(NatSub(P2(64), One), h[2][2])), h[3])
                    ELSE DecOk(Integer(TRUE, NatAdd(h[2][2], One)), h[3])
               [] OTHER -> DecErr("Error")
  IN  with(dec_read_head(data, pos))

decode_integer_raw(data, pos) ==
  LET with(h) ==
        IF h[1] # "ok" THEN h
        ELSE CASE h[2][1] = 0 -> DecOk(Integer(FALSE, h[2][2]), h[3])
               [] h[2][1] = 1 -> DecOk(Integer(TRUE, NatAdd(h[2][2], One)), h[3])
               [] OTHER -> DecErr("Error")
  IN  with(dec_read_head(data, pos))

\* the head, then `len` bytes, as a string of the encoding
decode_string_raw(data, pos, enc) ==
  LET with_len(h) ==
        LET with_bytes(b) == IF b[1] # "ok" THEN b ELSE DecOk(Str(enc, b[2]), b[3])
        IN  IF h[1] # "ok" THEN h ELSE with_bytes(dec_take(data, h[3], h[2][2]))
  IN  with_len(dec_read_head(data, pos))

decode_binary_raw(data, pos) == decode_string_raw(data, pos, "binary")

decode_text_raw(data, pos) ==
  LET ai == data[pos + 1] % 32
      end == pos + 1 + ai
  IN  IF pos < Len(data) /\ ai < 24 /\ end <= Len(data)
      THEN DecOk(Str("utf8", SubSeq(data, pos + 2, end)), end)
      ELSE decode_string_raw(data, pos, "utf8")

\* rb_hash_aset: the value of an existing key is replaced, a new key is added last
rb_hash_aset(pairs, key, val) ==
  IF \E i \in 1..Len(pairs) : pairs[i][1] = key
  THEN [i \in 1..Len(pairs) |-> IF pairs[i][1] = key THEN <<key, val>> ELSE pairs[i]]
  ELSE Append(pairs, <<key, val>>)

\* rb_ary_new_capa raises ArgumentError for a capacity that is negative as a
\* c_long or above ARY_MAX_SIZE (2^60 - 1)
AryCapaRefused(len) == Len(len) = 8 /\ len[8] >= 16

RECURSIVE decode_value(_, _)

\* for _ in 0..len { item = decode_value()?; rb_ary_push(arr, item) }
RECURSIVE decode_array_items(_, _, _, _)
decode_array_items(data, pos, left, arr) ==
  IF left = <<>> THEN DecOk(Array(arr), pos)
  ELSE LET with(item) ==
             IF item[1] # "ok" THEN item
             ELSE decode_array_items(data, item[3], NatSub(left, One), Append(arr, item[2]))
       IN  with(decode_value(data, pos))

decode_array_raw(data, pos) ==
  LET with_len(h) ==
        IF h[1] # "ok" THEN h
        ELSE IF AryCapaRefused(h[2][2]) THEN DecErr("ArgumentError")
        ELSE decode_array_items(data, h[3], h[2][2], <<>>)
  IN  with_len(dec_read_head(data, pos))

\* the key of a map pair: the inlined short-text path, else decode_text_raw
decode_map_key(data, pos) ==
  LET ib == data[pos + 1]
      end == pos + 1 + (ib % 32)
  IN  IF pos < Len(data) /\ ib \div 32 = 3 /\ ib % 32 < 24 /\ end <= Len(data)
      THEN DecOk(Str("utf8", SubSeq(data, pos + 2, end)), end)
      ELSE decode_text_raw(data, pos)

\* the key and the value of one pair, set in the hash
decode_map_pair(data, pos, hash) ==
  LET with_key(key) ==
        LET with_val(val) ==
              IF val[1] # "ok" THEN val
              ELSE DecOk(rb_hash_aset(hash, key[2], val[2]), val[3])
        IN  IF key[1] # "ok" THEN key ELSE with_val(decode_value(data, key[3]))
  IN  with_key(decode_map_key(data, pos))

RECURSIVE decode_map_pairs(_, _, _, _)
decode_map_pairs(data, pos, left, hash) ==
  IF left = <<>> THEN DecOk(Hash(hash), pos)
  ELSE LET with(pair) ==
             IF pair[1] # "ok" THEN pair
             ELSE decode_map_pairs(data, pair[3], NatSub(left, One), pair[2])
       IN  with(decode_map_pair(data, pos, hash))

decode_map_raw(data, pos) ==
  LET with_len(h) == IF h[1] # "ok" THEN h ELSE decode_map_pairs(data, h[3], h[2][2], <<>>)
  IN  with_len(dec_read_head(data, pos))

\* the loop of decode_indef_array leaving the cursor on the break byte
RECURSIVE decode_indef_array_loop_keeps_break(_, _, _)
decode_indef_array_loop_keeps_break(data, pos, arr) ==
  LET with_ib(ib) ==
        LET with_item(item) ==
              IF item[1] # "ok" THEN item
              ELSE decode_indef_array_loop_keeps_break(data, item[3], Append(arr, item[2]))
        IN  IF ib[1] # "ok" THEN ib
            ELSE IF ib[2] = 255 THEN DecOk(Array(arr), pos)
            ELSE with_item(decode_value(data, pos))
  IN  with_ib(dec_peek(data, pos))

\* the loop of decode_indef_array, the cursor past the initial byte
RECURSIVE decode_indef_array_loop(_, _, _)
decode_indef_array_loop(data, pos, arr) ==
  LET with_ib(ib) ==
        LET with_item(item) ==
              IF item[1] # "ok" THEN item
              ELSE decode_indef_array_loop(data, item[3], Append(arr, item[2]))
        IN  IF ib[1] # "ok" THEN ib
            ELSE IF ib[2] = 255 THEN DecOk(Array(arr), pos + 1)
            ELSE with_item(decode_value(data, pos))
  IN  with_ib(dec_peek(data, pos))

decode_indef_array(data, pos) == decode_indef_array_loop(data, pos + 1, <<>>)

RECURSIVE decode_indef_map_loop(_, _, _)
decode_indef_map_loop(data, pos, hash) ==
  LET with_ib(ib) ==
        LET with_pair(pair) ==
              IF pair[1] # "ok" THEN pair ELSE decode_indef_map_loop(data, pair[3], pair[2])
        IN  IF ib[1] # "ok" THEN ib
            ELSE IF ib[2] = 255 THEN DecOk(Hash(hash), pos + 1)
            ELSE with_pair(decode_map_pair(data, pos, hash))
  IN  with_ib(dec_peek(data, pos))

decode_indef_map(data, pos) == decode_indef_map_loop(data, pos + 1, <<>>)

\* the loop of decode_indef_binary and decode_indef_text: chunks until a break
RECURSIVE decode_indef_chunks(_, _, _, _)
decode_indef_chunks(data, pos, result, enc) ==
  LET with_ib(ib) ==
        LET with_chunk(chunk) ==
              IF chunk[1] # "ok" THEN chunk
              ELSE decode_indef_chunks(data, chunk[3], result \o chunk[2][3], enc)
        IN  IF ib[1] # "ok" THEN ib
            ELSE IF ib[2] = 255 THEN DecOk(Str(enc, result), pos + 1)
            ELSE with_chunk(decode_string_raw(data, pos, enc))
  IN  with_ib(dec_peek(data, pos))

decode_indef_binary(data, pos) == decode_indef_chunks(data, pos + 1, <<>>, "binary")

decode_indef_text(data, pos) == decode_indef_chunks(data, pos + 1, <<>>, "utf8")

\* the f64 is kept as the 2 bytes it is computed from
decode_half_raw(data, pos) ==
  LET with(b) == IF b[1] # "ok" THEN b ELSE DecOk(Float(b[2]), b[3])
  IN  with(dec_take(data, pos + 1, <<2>>))

\* the 26 and 27 arms of decode_value; the f64 is kept as the bytes read
decode_float_raw(data, pos, width) ==
  LET start == pos + 1
      end == start + width
  IN  IF end > Len(data) THEN OutOfBytes(FromInt(width), Len(data) - start)
      ELSE DecOk(Float(SubSeq(data, start + 1, end)), end)

\* decode_bignum_raw negating the magnitude for tag 3 (-val, not -1 - val)
decode_bignum_raw_negates(data, pos, tag) ==
  LET with_len(h) ==
        LET with_bytes(b) ==
              IF b[1] # "ok" THEN b
              ELSE DecOk(Integer(tag # TAG_BIGNUM /\ FromBE(b[2]) # <<>>, FromBE(b[2])), b[3])
        IN  IF h[1] # "ok" THEN h ELSE with_bytes(dec_take(data, h[3], h[2][2]))
  IN  with_len(dec_read_head(data, pos))

decode_bignum_raw(data, pos, tag) ==
  LET with_len(h) ==
        LET with_bytes(b) ==
              IF b[1] # "ok" THEN b
              ELSE IF tag = TAG_BIGNUM THEN DecOk(Integer(FALSE, FromBE(b[2])), b[3])
              ELSE DecOk(Integer(TRUE, NatAdd(FromBE(b[2]), One)), b[3])
        IN  IF h[1] # "ok" THEN h ELSE with_bytes(dec_take(data, h[3], h[2][2]))
  IN  with_len(dec_read_head(data, pos))

\* the BigDecimal is kept as the product it is computed as:
\* BigDecimal(m) * (BigDecimal(10) ** BigDecimal(e))
decode_bigdec_raw(data, pos) ==
  LET with_len(h) ==
        LET with_e(e) ==
              LET with_m(m) ==
                    IF m[1] # "ok" THEN m
                    ELSE DecOk(<<"BigDecimalProduct", m[2], e[2]>>, m[3])
              IN  IF e[1] # "ok" THEN e ELSE with_m(decode_integer_raw(data, e[3]))
        IN  IF h[1] # "ok" THEN h
            ELSE IF h[2][2] # <<2>> THEN DecErr("Error")
            ELSE with_e(decode_integer_raw(data, h[3]))
  IN  with_len(dec_read_head(data, pos))

\* a Float that is an infinity or a NaN: the exponent field of its bytes is all ones
NonFinite(f) ==
  CASE f[2] = 2 -> (f[3][1] % 128) \div 4 = 31
    [] f[2] = 4 -> (f[3][1] % 128) * 2 + f[3][2] \div 128 = 255
    [] f[2] = 8 -> F64Exp(f[3]) = 2047

\* Time.at takes a number or a time, and no infinity or NaN
TimeAt(item, pos) ==
  IF item[1] = "Float" /\ NonFinite(item) THEN DecErr("FloatDomainError")
  ELSE IF item[1] \in {"Int", "Float", "BigDecimalProduct", "Time"} THEN DecOk(Time(item), pos)
  ELSE DecErr("TypeError")

decode_tag_raw(data, pos) ==
  LET with_tag(h) ==
        LET with_item(item) == IF item[1] # "ok" THEN item ELSE TimeAt(item[2], item[3])
            with_inner(inner) ==
              IF inner[1] # "ok" THEN inner ELSE DecOk(Tagged(h[2][2], inner[2]), inner[3])
        IN  IF h[1] # "ok" THEN h
            ELSE CASE h[2][2] = FromInt(TAG_EPOCH) -> with_item(decode_value(data, h[3]))
                   [] h[2][2] = FromInt(TAG_BIGNUM) ->
                        decode_bignum_raw(data, h[3], TAG_BIGNUM)
                   [] h[2][2] = FromInt(TAG_NEG_BIGNUM) ->
                        decode_bignum_raw(data, h[3], TAG_NEG_BIGNUM)
                   [] h[2][2] = FromInt(TAG_BIGDEC) -> decode_bigdec_raw(data, h[3])
                   [] OTHER -> with_inner(decode_value(data, h[3]))
  IN  with_tag(dec_read_head(data, pos))

\* :undefined
Undefined == Sym(<<117, 110, 100, 101, 102, 105, 110, 101, 100>>)

decode_value(data, pos) ==
  IF pos >= Len(data) THEN OutOfBytes(One, Len(data) - pos)
  ELSE LET ib == data[pos + 1]
           major == ib \div 32
           add_info == ib % 32
       IN  CASE major = 0 /\ add_info < 24 -> DecOk(Integer(FALSE, FromInt(add_info)), pos + 1)
             [] major = 1 /\ add_info < 24 -> DecOk(Integer(TRUE, FromInt(add_info + 1)), pos + 1)
             [] major \in {0, 1} /\ add_info >= 24 -> decode_integer_raw(data, pos)
             [] major = 2 /\ add_info = 31 -> decode_indef_binary(data, pos)
             [] major = 2 /\ add_info # 31 -> decode_binary_raw(data, pos)
             [] major = 3 /\ add_info = 31 -> decode_indef_text(data, pos)
             [] major = 3 /\ add_info # 31 -> decode_text_raw(data, pos)
             [] major = 4 /\ add_info = 31 -> decode_indef_array(data, pos)
             [] major = 4 /\ add_info # 31 -> decode_array_raw(data, pos)
             [] major = 5 /\ add_info = 31 -> decode_indef_map(data, pos)
             [] major = 5 /\ add_info # 31 -> decode_map_raw(data, pos)
             [] major = 6 -> decode_tag_raw(data, pos)
             [] major = 7 /\ add_info = 20 -> DecOk(Bool(FALSE), pos + 1)
             [] major = 7 /\ add_info = 21 -> DecOk(Bool(TRUE), pos + 1)
             [] major = 7 /\ add_info = 22 -> DecOk(Nil, pos + 1)
             [] major = 7 /\ add_info = 23 -> DecOk(Undefined, pos + 1)
             [] major = 7 /\ add_info = 25 -> decode_half_raw(data, pos)
             [] major = 7 /\ add_info = 26 -> decode_float_raw(data, pos, 4)
             [] major = 7 /\ add_info = 27 -> decode_float_raw(data, pos, 8)
             [] major = 7 /\ add_info = 31 -> DecErr("UnexpectedBreakCodeError")
             [] OTHER -> DecErr("Error")

\* the check both decode entry points make after decode_value
ExtraBytes(left) == <<"err", "ExtraBytesError", <<>>, left>>

\* rb_decode without the check for bytes after the item
rb_decode_ignores_rest(data) ==
  LET with(result) == IF result[1] # "ok" THEN result ELSE <<"ok", result[2]>>
  IN  with(decode_value(data, 0))

\* AwsCrt::Cbor.decode
rb_decode(data) ==
  LET with(result) ==
        IF result[1] # "ok" THEN result
        ELSE IF result[3] < Len(data) THEN ExtraBytes(Len(data) - result[3])
        ELSE <<"ok", result[2]>>
  IN  with(decode_value(data, 0))

(***************************************************************************)
(* The stateful Encoder and Decoder                                        *)
(***************************************************************************)
\* Encoder#add encoding into a fresh buffer that replaces the encoder's
Encoder_rb_add_fresh_buffer(buf, v) == encode_value(<<>>, v)

\* Encoder#add: encode_value on the encoder's own buffer
Encoder_rb_add(buf, v) == encode_value(buf, v)

\* Encoder#bytes: a copy of the buffer
Encoder_rb_bytes(buf) == buf

\* Decoder#decode moving the cursor to the end of the data when decode_value
\* fails
Decoder_rb_decode_skips_on_failure(data, pos) ==
  LET with(result) ==
        IF result[1] # "ok" THEN <<result, Len(data)>>
        ELSE IF result[3] < Len(data)
        THEN <<ExtraBytes(Len(data) - result[3]), result[3]>>
        ELSE <<(<<"ok", result[2]>>), result[3]>>
  IN  with(decode_value(data, pos))

\* Decoder#decode: <<what the call returns, the cursor it leaves>>; the cursor
\* is stored only when decode_value returned a value
Decoder_rb_decode(data, pos) ==
  LET with(result) ==
        IF result[1] # "ok" THEN <<result, pos>>
        ELSE IF result[3] < Len(data)
        THEN <<ExtraBytes(Len(data) - result[3]), result[3]>>
        ELSE <<(<<"ok", result[2]>>), result[3]>>
  IN  with(decode_value(data, pos))

(***************************************************************************)
(* Inputs                                                                  *)
(***************************************************************************)
MaxItems == 2    \* elements of an array handed to encode
MaxPairs == 2    \* pairs of a hash handed to encode
MaxTrail == 2    \* bytes after the first item of a decode input
MaxAdds == 2     \* add calls on one Encoder
MaxValues == 2   \* values whose encodings make up a Decoder's input
MaxIndef == 2    \* elements, pairs or chunks of an indefinite-length item

UpTo(S, n) == UNION {[1..k -> S] : k \in 0..n}

RECURSIVE Concat(_)
Concat(ss) == IF ss = <<>> THEN <<>> ELSE Head(ss) \o Concat(Tail(ss))

\* magnitudes around every boundary of the head sizes and of the integer widths
U64Samples ==
  {<<>>, <<1>>, <<23>>, <<24>>, <<25>>, <<255>>, <<0, 1>>, <<255, 255>>, <<0, 0, 1>>,
   NatSub(P2(32), One), P2(32), NatSub(P2(62), One), P2(62), NatSub(P2(63), One),
   P2(63), NatAdd(P2(63), One), NatSub(P2(64), One)}

BigSamples == {P2(64), NatAdd(P2(64), One), NatAdd(P2(71), <<5>>), NatAdd(P2(191), <<7>>)}

Ints ==
  {Integer(FALSE, m) : m \in U64Samples \cup BigSamples}
    \cup {Integer(TRUE, m) : m \in (U64Samples \cup BigSamples) \ {<<>>}}

Strings ==
  {Str("utf8", <<>>), Str("utf8", <<97>>), Str("utf8", [i \in 1..24 |-> 97]),
   Str("binary", <<>>), Str("binary", <<1, 255>>)}

\* 1.5, 1.1, -0.0, 2^-149, 2^-150, 2^128, the largest f32, 1 + 2^-23, 1 + 2^-24,
\* the smallest subnormal f64, -infinity, a quiet and a signalling NaN
Floats ==
  {Float(b) : b \in {<<63, 248, 0, 0, 0, 0, 0, 0>>, <<63, 241, 153, 153, 153, 153, 153, 154>>,
                     <<128, 0, 0, 0, 0, 0, 0, 0>>, <<54, 160, 0, 0, 0, 0, 0, 0>>,
                     <<54, 144, 0, 0, 0, 0, 0, 0>>, <<71, 240, 0, 0, 0, 0, 0, 0>>,
                     <<71, 239, 255, 255, 224, 0, 0, 0>>, <<63, 240, 0, 0, 32, 0, 0, 0>>,
                     <<63, 240, 0, 0, 16, 0, 0, 0>>, <<0, 0, 0, 0, 0, 0, 0, 1>>,
                     F64_NEG_INFINITY, F64_NAN, <<127, 240, 0, 0, 0, 0, 0, 1>>}}

Times == {Time(Integer(FALSE, <<1>>)), Time(Integer(TRUE, <<3>>))} \cup {Time(f) : f \in Floats}

\* 1.23, -1.23, 0, 2^64, -(2^64 + 1), 39 ones (below 2^127), 40 nines (above
\* 2^127), the same times 10^-50, the infinities, NaN
BigDecimals ==
  {BigDecimal(1, <<1, 2, 3>>, 1), BigDecimal(-1, <<1, 2, 3>>, 1), BigDecimal(1, <<0>>, 0),
   BigDecimal(1, <<1, 8, 4, 4, 6, 7, 4, 4, 0, 7, 3, 7, 0, 9, 5, 5, 1, 6, 1, 6>>, 20),
   BigDecimal(-1, <<1, 8, 4, 4, 6, 7, 4, 4, 0, 7, 3, 7, 0, 9, 5, 5, 1, 6, 1, 7>>, 20),
   BigDecimal(1, [i \in 1..39 |-> 1], 39), BigDecimal(1, [i \in 1..40 |-> 9], 40),
   BigDecimal(-1, [i \in 1..40 |-> 9], -10),
   BigDecimalInfinity(1), BigDecimalInfinity(-1), BigDecimalNaN}

Leaves ==
  Ints \cup Strings \cup Floats \cup Times \cup BigDecimals
    \cup {Nil, Bool(TRUE), Bool(FALSE), Sym(<<97>>), Object}

\* what the containers handed to encode hold
Elems ==
  {Nil, Bool(TRUE), Integer(FALSE, <<1>>), Integer(TRUE, <<25>>), Integer(FALSE, P2(64)),
   Str("utf8", <<97>>), Str("binary", <<1>>), Object}

Keys == {Str("utf8", <<97>>), Str("utf8", <<>>), Integer(FALSE, <<1>>), Str("binary", <<255>>)}

Vals == {Integer(FALSE, <<2>>), Str("utf8", <<98>>), Nil, Object}

Arrays == {Array(s) : s \in UpTo(Elems, MaxItems)}

\* a host hash holds a key once
Hashes ==
  {Hash(s) : s \in {t \in UpTo(Keys \X Vals, MaxPairs) :
                      \A i, j \in 1..Len(t) : i # j => t[i][1] # t[j][1]}}

Tags == {<<>>, <<5>>, <<24>>, <<0, 1>>, NatSub(P2(64), One)}

Nested ==
  {Array(<<a>>) : a \in {Array(<<>>), Array(<<Nil, Object>>), Hash(<<>>),
                         Hash(<<(<<Str("utf8", <<97>>), Array(<<Nil>>)>>)>>)}}
    \cup {Tagged(t, x) : t \in Tags, x \in Elems \cup {Array(<<Nil>>), Tagged(<<6>>, Nil)}}
    \cup {Hash(<<(<<Array(<<Integer(FALSE, <<1>>)>>), Nil>>)>>),
          Hash(<<(<<Str("utf8", <<97>>), Hash(<<(<<Str("utf8", <<98>>), Nil>>)>>)>>)>>)}

EncValues == Leaves \cup Arrays \cup Hashes \cup Nested

Majors ==
  {MAJOR_UNSIGNED, MAJOR_NEGATIVE, MAJOR_BYTES, MAJOR_TEXT, MAJOR_ARRAY, MAJOR_MAP,
   MAJOR_TAG, MAJOR_SIMPLE}

HeadArgs == {<<"head", m, v>> : m \in Majors, v \in U64Samples}

\* complete single items, by hand
Items ==
  {<<1>>, <<24, 24>>, <<57, 1, 0>>, <<97, 97>>, <<66, 1, 2>>, <<130, 1, 2>>, <<128>>,
   <<159, 1, 2, 255>>, <<161, 97, 97, 1>>, <<191, 97, 97, 1, 255>>, <<95, 65, 1, 255>>,
   <<197, 1>>, <<194, 65, 1>>, <<246>>, <<250, 63, 192, 0, 0>>, <<249, 60, 0>>}

TrailBytes == {0, 1, 28, 255}

TrailInputs == {i \o t : i \in Items, t \in UpTo(TrailBytes, MaxTrail)}

\* the bytes before an item in each position an item is read at: the top level,
\* an array element, a map value, a tag's content, an indefinite container
ValueContexts ==
  {<<>>, <<129>>, <<130, 1>>, <<161, 97, 97>>, <<159>>, <<159, 1>>, <<191, 97, 97>>,
   <<197>>, <<193>>}

\* a map key, the content of tags 2, 3 and 4, the elements of a tag 4 array, a chunk
RawContexts ==
  {<<161>>, <<191>>, <<194>>, <<195>>, <<196>>, <<196, 130>>, <<196, 130, 1>>,
   <<95>>, <<127>>}

Contexts == ValueContexts \cup RawContexts

\* an item that declares n bytes and supplies fewer: a head's count field, a
\* string's bytes, a float's payload
Truncated ==
  {[bytes |-> <<m + 24>>, n |-> <<1>>, avail |-> 0] : m \in Majors \ {MAJOR_SIMPLE}}
    \cup {[bytes |-> <<m + 25, 1>>, n |-> <<2>>, avail |-> 1] : m \in Majors \ {MAJOR_SIMPLE}}
    \cup {[bytes |-> <<m + 26, 1, 2>>, n |-> <<4>>, avail |-> 2] : m \in Majors \ {MAJOR_SIMPLE}}
    \cup {[bytes |-> <<m + 27, 1, 2, 3, 4, 5, 6, 7>>, n |-> <<8>>, avail |-> 7] :
            m \in Majors \ {MAJOR_SIMPLE}}
    \cup {[bytes |-> <<m + 2, 1>>, n |-> <<2>>, avail |-> 1] : m \in {MAJOR_BYTES, MAJOR_TEXT}}
    \cup {[bytes |-> <<m + 24, 24>>, n |-> <<24>>, avail |-> 0] : m \in {MAJOR_BYTES, MAJOR_TEXT}}
    \cup {[bytes |-> <<m + 27>> \o ToBE(n, 8) \o t, n |-> n, avail |-> Len(t)] :
            m \in {MAJOR_BYTES, MAJOR_TEXT},
            n \in {P2(32), P2(63), NatSub(P2(64), <<2>>), NatSub(P2(64), One)},
            t \in {<<>>, <<1>>}}
    \cup {[bytes |-> <<249, 1>>, n |-> <<2>>, avail |-> 1],
          [bytes |-> <<250, 1, 2, 3>>, n |-> <<4>>, avail |-> 3],
          [bytes |-> <<251>>, n |-> <<8>>, avail |-> 0]}

TruncInputs == {c \o t.bytes : c \in Contexts, t \in Truncated}

ReservedInfo == 28..30

ReservedInputs ==
  {c \o <<m + ai>> \o f : c \in Contexts, m \in Majors, ai \in ReservedInfo,
                           f \in {<<>>, <<1, 1>>}}

BreakInputs == {c \o <<255>> \o f : c \in Contexts, f \in {<<>>, <<1, 1>>}}

\* the heads of tags that have no built-in reading, with the tag number
TagHeads ==
  {<<(<<192>>), <<>>>>, <<(<<197>>), <<5>>>>, <<(<<216, 24>>), <<24>>>>,
   <<(<<219, 255, 255, 255, 255, 255, 255, 255, 255>>), NatSub(P2(64), One)>>}

\* complete items that decode at the top level, as the content of a tag
TagContents ==
  {<<1>>, <<97, 97>>, <<68, 1, 2, 3, 4>>, <<130, 1, 2>>, <<159, 1, 255>>, <<198, 1>>,
   <<193, 1>>, <<194, 65, 1>>, <<196, 130, 1, 2>>}

\* the bytes before and after an item in each position of an item: the top
\* level, an array element, a map value, an element of an indefinite array,
\* a tag's content, a key of a definite and of an indefinite map
TagPositions ==
  {<<(<<>>), <<>>>>, <<(<<129>>), <<>>>>, <<(<<161, 97, 97>>), <<>>>>, <<(<<159>>), <<255>>>>,
   <<(<<198>>), <<>>>>, <<(<<161>>), <<246>>>>, <<(<<191>>), <<246, 255>>>>}

TagInputs == {p[1] \o h[1] \o c \o p[2] : p \in TagPositions, h \in TagHeads, c \in TagContents}

\* the elements of the indefinite-length arrays and the values of the maps:
\* 1, "a", [1, 2], and the indefinite-length [1], h'01' and {"a" => nil}
IndefElems ==
  {<<1>>, <<97, 97>>, <<130, 1, 2>>, <<159, 1, 255>>, <<95, 65, 1, 255>>,
   <<191, 97, 97, 246, 255>>}

\* a key and a value, one after the other
IndefPairs == {k \o v : k \in {<<96>>, <<97, 97>>}, v \in {<<1>>, <<159, 1, 255>>, <<246>>}}

\* the chunks of a byte string and of a text string: <<the chunk, its content>>
BinaryChunks ==
  {<<(<<64>>), <<>>>>, <<(<<65, 1>>), <<1>>>>, <<(<<66, 2, 255>>), <<2, 255>>>>,
   <<(<<88, 1, 9>>), <<9>>>>}

TextChunks == {<<(<<96>>), <<>>>>, <<(<<97, 97>>), <<97>>>>, <<(<<98, 195, 169>>), <<195, 169>>>>}

\* an indefinite-length item and the definite-length item of the same
\* elements, pairs or concatenated chunks
IndefForms ==
  {[indef |-> <<MAJOR_ARRAY + 31>> \o Concat(e) \o <<255>>,
    def |-> <<MAJOR_ARRAY + Len(e)>> \o Concat(e)] : e \in UpTo(IndefElems, MaxIndef)}
    \cup {[indef |-> <<MAJOR_MAP + 31>> \o Concat(e) \o <<255>>,
           def |-> <<MAJOR_MAP + Len(e)>> \o Concat(e)] : e \in UpTo(IndefPairs, MaxIndef)}
    \cup {[indef |-> <<MAJOR_BYTES + 31>> \o Concat([i \in 1..Len(c) |-> c[i][1]]) \o <<255>>,
           def |-> <<MAJOR_BYTES + Len(Concat([i \in 1..Len(c) |-> c[i][2]]))>>
                     \o Concat([i \in 1..Len(c) |-> c[i][2]])] :
            c \in UpTo(BinaryChunks, MaxIndef)}
    \cup {[indef |-> <<MAJOR_TEXT + 31>> \o Concat([i \in 1..Len(c) |-> c[i][1]]) \o <<255>>,
           def |-> <<MAJOR_TEXT + Len(Concat([i \in 1..Len(c) |-> c[i][2]]))>>
                     \o Concat([i \in 1..Len(c) |-> c[i][2]])] :
            c \in UpTo(TextChunks, MaxIndef)}

\* the bytes before and after an item: alone, followed by a byte, the first of
\* two elements of an array, an element of an indefinite-length array
IndefPositions ==
  {<<(<<>>), <<>>>>, <<(<<>>), <<0>>>>, <<(<<130>>), <<2>>>>, <<(<<159>>), <<3, 255>>>>}

IndefInputs == {p[1] \o f.indef \o p[2] : p \in IndefPositions, f \in IndefForms}

\* text strings and byte strings of bytes that are and are not UTF-8: a lone
\* 0xff, a lead byte without its continuation, an overlong form, a surrogate,
\* a character split over two chunks, a chunk of 0xff, and the same under an
\* array and as a map value
Utf8Inputs ==
  {<<98, 195, 169>>, <<97, 255>>, <<98, 195, 40>>, <<98, 192, 175>>, <<99, 237, 160, 128>>,
   <<120, 1, 255>>, <<127, 97, 195, 97, 169, 255>>, <<127, 97, 255, 255>>,
   <<65, 255>>, <<66, 195, 40>>, <<95, 65, 255, 255>>,
   <<129, 97, 255>>, <<161, 97, 97, 97, 255>>}

\* Tag 2 and Tag 3 before a byte string, a text string, an unsigned and a
\* negative integer, an array, a map, a tag, a simple value and a byte string
\* of indefinite length
BignumInputs ==
  {<<t>> \o c : t \in {MAJOR_TAG + TAG_BIGNUM, MAJOR_TAG + TAG_NEG_BIGNUM},
                c \in {<<66, 1, 0>>, <<64>>, <<97, 97>>, <<1, 5>>, <<33, 5>>, <<130, 1, 2>>,
                       <<161, 5>>, <<193, 7>>, <<225, 9>>, <<245>>, <<95, 65, 1, 255>>}}

\* Tag 4 before [1, 2], and before complete items that are no array of 2
\* elements: the integer 2 and a byte string, a text string, a map and a tag of
\* head count 2, each with two integers after the head, [1, 2, 3], [1], the
\* integer 1, "ab" and [1, "a"]
BigdecInputs ==
  {<<MAJOR_TAG + TAG_BIGDEC>> \o c :
     c \in {<<130, 1, 2>>, <<2, 1, 2>>, <<66, 1, 2>>, <<98, 1, 2>>, <<162, 1, 2, 1, 2>>,
            <<194, 66, 1, 2>>, <<131, 1, 2, 3>>, <<129, 1>>, <<1>>, <<98, 97, 98>>,
            <<130, 1, 97, 97>>}}

\* heads of major type 0 in each of the five sizes, shortest form or not, with
\* the count each states: 0, 23, 24, 255, 256, 2^16 - 1, 2^16, 2^32 - 1, 2^32,
\* 2^62 - 1, 2^62, 2^63 - 1, 2^63 and 2^64 - 1
IntegerHeads ==
  {[head |-> <<0>>, count |-> <<>>],
   [head |-> <<23>>, count |-> <<23>>],
   [head |-> <<24, 0>>, count |-> <<>>],
   [head |-> <<24, 24>>, count |-> <<24>>],
   [head |-> <<24, 255>>, count |-> <<255>>],
   [head |-> <<25, 0, 23>>, count |-> <<23>>],
   [head |-> <<25, 1, 0>>, count |-> P2(8)],
   [head |-> <<25, 255, 255>>, count |-> NatSub(P2(16), One)],
   [head |-> <<26, 0, 0, 0, 0>>, count |-> <<>>],
   [head |-> <<26, 0, 1, 0, 0>>, count |-> P2(16)],
   [head |-> <<26, 255, 255, 255, 255>>, count |-> NatSub(P2(32), One)],
   [head |-> <<27, 0, 0, 0, 0, 0, 0, 0, 1>>, count |-> One],
   [head |-> <<27, 0, 0, 0, 1, 0, 0, 0, 0>>, count |-> P2(32)],
   [head |-> <<27, 63, 255, 255, 255, 255, 255, 255, 255>>, count |-> NatSub(P2(62), One)],
   [head |-> <<27, 64, 0, 0, 0, 0, 0, 0, 0>>, count |-> P2(62)],
   [head |-> <<27, 127, 255, 255, 255, 255, 255, 255, 255>>, count |-> NatSub(P2(63), One)],
   [head |-> <<27, 128, 0, 0, 0, 0, 0, 0, 0>>, count |-> P2(63)],
   [head |-> <<27, 255, 255, 255, 255, 255, 255, 255, 255>>, count |-> NatSub(P2(64), One)]}

\* the heads as major type 0 and as major type 1
IntegerInputs ==
  {<<major + h.head[1]>> \o Tail(h.head) :
     major \in {MAJOR_UNSIGNED, MAJOR_NEGATIVE}, h \in IntegerHeads}

DecInputs ==
  TrailInputs \cup TruncInputs \cup ReservedInputs \cup BreakInputs \cup TagInputs
    \cup IndefInputs \cup Utf8Inputs \cup BignumInputs \cup BigdecInputs
    \cup IntegerInputs

AddValues ==
  {Nil, Integer(FALSE, <<24>>), Str("utf8", <<97>>), Object, Array(<<Nil, Object>>),
   Array(<<Integer(FALSE, <<1>>), Nil>>), Hash(<<(<<Str("utf8", <<97>>), Object>>)>>),
   Tagged(<<5>>, Object), Data, Array(<<Object, Nil>>),
   Array(<<Array(<<Nil, Object, Nil>>), Nil>>), Hash(<<(<<Object, Nil>>)>>),
   Hash(<<(<<Str("utf8", <<97>>), Object>>), (<<Str("utf8", <<98>>), Nil>>)>>),
   Hash(<<(<<Str("utf8", <<97>>), Array(<<Object>>)>>)>>),
   Array(<<Hash(<<(<<Str("utf8", <<97>>), Nil>>), (<<Data, Nil>>)>>), Nil>>)}

StreamValues ==
  {Nil, Integer(FALSE, <<1>>), Integer(TRUE, P2(64)), Str("utf8", <<97>>),
   Array(<<Nil, Bool(TRUE)>>), Hash(<<(<<Str("utf8", <<97>>), Nil>>)>>), Tagged(<<5>>, Nil)}

(***************************************************************************)
(* The module-level functions: one call of encode (and decode of what it   *)
(* returned), of decode, or of write_head, on an input drawn at the start  *)
(***************************************************************************)
NoCall == <<"none">>

\* the process after init, with the BigDecimal library loaded before init
ProcessReady == bigdecimal_defined = TRUE /\ statics = init(StaticsDeclared, TRUE)

\* build_request: the RequestState of a new request
RequestState(streaming) ==
  [status_code |-> 0, headers |-> <<>>, body |-> <<>>, chunks |-> <<>>,
   streaming |-> streaming, error_code |-> 0, complete |-> FALSE, connection |-> "null"]

\* no request made
RequestIdle ==
  /\ state = RequestState(FALSE)
  /\ crt = "none" /\ thread = "none" /\ headers_delivered = FALSE
  /\ drained = <<>> /\ calls = <<>> /\ http_ret = NoCall
  /\ ctx = "none" /\ pushed = <<>> /\ released = 0 /\ completions = 0
  /\ ctx_read_after_cleanup = FALSE

EncoderIdle == enc_buf = <<>> /\ enc_added = <<>> /\ enc_ret = NoCall /\ enc_prev = <<>>

DecoderIdle ==
  dec_data = <<>> /\ dec_pos = 0 /\ dec_ret = NoCall /\ dec_calls = 0 /\ dec_values = <<>>

Init ==
  /\ overflow_checks \in BOOLEAN
  /\ \/ op = "encode" /\ value \in EncValues /\ bytes = <<>>
     \/ op = "decode" /\ value = Nil /\ bytes \in DecInputs
     \/ op = "write_head" /\ value \in HeadArgs /\ bytes = <<>>
  /\ ret = NoCall
  /\ pc = "call"
  /\ EncoderIdle
  /\ DecoderIdle
  /\ ProcessReady
  /\ RequestIdle

RbEncode ==
  /\ pc = "call" /\ op = "encode"
  /\ ret' = rb_encode(value)
  /\ bytes' = IF ret'[1] = "ok" THEN ret'[2] ELSE bytes
  /\ statics' = encode_value_statics(statics, bigdecimal_defined, value)
  /\ pc' = "encoded"
  /\ UNCHANGED <<request, bigdecimal_defined, overflow_checks, op, value, enc_buf, enc_added, enc_ret,
                 enc_prev, dec_data, dec_pos, dec_ret, dec_calls, dec_values>>

RbDecode ==
  /\ \/ pc = "call" /\ op = "decode"
     \/ pc = "encoded" /\ ret[1] = "ok"
  /\ ret' = rb_decode(bytes)
  /\ pc' = "done"
  /\ UNCHANGED <<request, statics, bigdecimal_defined, overflow_checks, op, value, bytes, enc_buf,
                 enc_added, enc_ret, enc_prev, dec_data, dec_pos, dec_ret, dec_calls, dec_values>>

WriteHead ==
  /\ pc = "call" /\ op = "write_head"
  /\ ret' = write_head(<<>>, value[2], value[3])
  /\ pc' = "done"
  /\ UNCHANGED <<request, statics, bigdecimal_defined, overflow_checks, op, value, bytes, enc_buf,
                 enc_added, enc_ret, enc_prev, dec_data, dec_pos, dec_ret, dec_calls, dec_values>>

Next == RbEncode \/ RbDecode \/ WriteHead

Spec == Init /\ [][Next]_vars

(***************************************************************************)
(* One Encoder: add and bytes calls in any order                           *)
(***************************************************************************)
CodecIdle == op = "none" /\ value = Nil /\ bytes = <<>> /\ ret = NoCall /\ pc = "call"

InitEncoder ==
  /\ overflow_checks \in BOOLEAN
  /\ CodecIdle
  /\ EncoderIdle
  /\ DecoderIdle
  /\ ProcessReady
  /\ RequestIdle

EncoderAdd ==
  /\ Len(enc_added) < MaxAdds
  /\ \E v \in AddValues :
       LET r == Encoder_rb_add(enc_buf, v)
       IN  /\ enc_buf' = IF r[1] = "ok" THEN r[2] ELSE r[3]
           /\ enc_ret' = IF r[1] = "ok" THEN <<"self">> ELSE <<"err", r[2]>>
           /\ enc_added' = Append(enc_added, <<v, r[1] = "ok">>)
           /\ statics' = encode_value_statics(statics, bigdecimal_defined, v)
  /\ enc_prev' = enc_buf
  /\ UNCHANGED <<request, bigdecimal_defined, overflow_checks, op, value, bytes, ret, pc,
                 dec_data, dec_pos, dec_ret, dec_calls, dec_values>>

EncoderBytes ==
  /\ enc_ret' = <<"bytes", Encoder_rb_bytes(enc_buf)>>
  /\ enc_prev' = enc_buf
  /\ UNCHANGED <<request, statics, bigdecimal_defined, overflow_checks, op, value, bytes, ret, pc,
                 enc_buf, enc_added, dec_data, dec_pos, dec_ret, dec_calls, dec_values>>

NextEncoder == EncoderAdd \/ EncoderBytes

SpecEncoder == InitEncoder /\ [][NextEncoder]_vars

(***************************************************************************)
(* One Decoder, constructed over the encodings of some values one after    *)
(* the other (or over an arbitrary input): decode calls                    *)
(***************************************************************************)
MaxDecodes == 3  \* decode calls on one Decoder

\* a complete item, then the start of an item that fails with OutOfBytesError,
\* UnexpectedAdditionalInformationError, UnexpectedBreakCodeError, the generic
\* Error, and with OutOfBytesError inside an array
FailAfterInputs ==
  {i \o t : i \in {<<246>>, <<130, 1, 2>>},
            t \in {<<24>>, <<28>>, <<255>>, <<252>>, <<130, 1>>}}

InitDecoder ==
  /\ overflow_checks \in BOOLEAN
  /\ CodecIdle
  /\ EncoderIdle
  /\ \/ /\ dec_values \in UpTo(StreamValues, MaxValues)
        /\ dec_data = Concat([i \in 1..Len(dec_values) |-> rb_encode(dec_values[i])[2]])
     \/ /\ dec_values = <<>>
        /\ dec_data \in TruncInputs \cup BreakInputs \cup FailAfterInputs
  /\ dec_pos = 0
  /\ dec_ret = NoCall
  /\ dec_calls = 0
  /\ ProcessReady
  /\ RequestIdle

DecoderDecode ==
  /\ dec_calls < MaxDecodes
  /\ LET r == Decoder_rb_decode(dec_data, dec_pos)
     IN  dec_ret' = r[1] /\ dec_pos' = r[2]
  /\ dec_calls' = dec_calls + 1
  /\ UNCHANGED <<request, statics, bigdecimal_defined, overflow_checks, op, value, bytes, ret, pc,
                 enc_buf, enc_added, enc_ret, enc_prev, dec_data, dec_values>>

NextDecoder == DecoderDecode

SpecDecoder == InitDecoder /\ [][NextDecoder]_vars

(***************************************************************************)
(* The process: the extension is loaded (init), the host program loads the *)
(* BigDecimal library before or after that, or never, and calls the        *)
(* module-level encode and decode in any order                             *)
(***************************************************************************)
\* what the process hands to encode: a BigDecimal only when the library is loaded
ProcessValues(defined) ==
  {Nil, Integer(FALSE, P2(64)), Str("binary", <<1>>), Float(F64_NAN), Sym(<<97>>),
   Time(Integer(FALSE, <<1>>)), Object, Data, Array(<<Data>>), Array(<<Object, Data>>),
   Array(<<Nil, Data>>), Tagged(<<5>>, Data), Tagged(<<5>>, Nil),
   Hash(<<(<<Str("utf8", <<97>>), Data>>)>>), Hash(<<(<<Object, Data>>)>>)}
    \cup (IF defined THEN {BigDecimal(1, <<1, 2, 3>>, 1), BigDecimalNaN,
                           Array(<<BigDecimal(1, <<1, 2, 3>>, 1)>>)}
          ELSE {})

InitProcess ==
  /\ overflow_checks \in BOOLEAN
  /\ op = "none" /\ value = Nil /\ bytes = <<>> /\ ret = NoCall /\ pc = "load"
  /\ EncoderIdle
  /\ DecoderIdle
  /\ statics = StaticsDeclared
  /\ bigdecimal_defined \in BOOLEAN
  /\ RequestIdle

\* Init_aws_crt: init runs once, when the extension is loaded
ProcessLoad ==
  /\ pc = "load"
  /\ statics' = init(statics, bigdecimal_defined)
  /\ pc' = "call"
  /\ UNCHANGED <<request, bigdecimal_defined, overflow_checks, op, value, bytes, ret, enc_buf,
                 enc_added, enc_ret, enc_prev, dec_data, dec_pos, dec_ret, dec_calls,
                 dec_values>>

\* the host program: require "bigdecimal"
ProcessRequireBigDecimal ==
  /\ ~bigdecimal_defined
  /\ bigdecimal_defined' = TRUE
  /\ UNCHANGED <<request, statics, overflow_checks, op, value, bytes, ret, pc, enc_buf, enc_added,
                 enc_ret, enc_prev, dec_data, dec_pos, dec_ret, dec_calls, dec_values>>

ProcessEncode ==
  /\ pc = "call"
  /\ \E v \in ProcessValues(bigdecimal_defined) :
       /\ op' = "encode" /\ value' = v
       /\ ret' = rb_encode(v)
       /\ bytes' = IF ret'[1] = "ok" THEN ret'[2] ELSE <<>>
       /\ statics' = encode_value_statics(statics, bigdecimal_defined, v)
  /\ UNCHANGED <<request, bigdecimal_defined, overflow_checks, pc, enc_buf, enc_added, enc_ret,
                 enc_prev, dec_data, dec_pos, dec_ret, dec_calls, dec_values>>

ProcessDecode ==
  /\ pc = "call"
  /\ \E b \in Items \cup TagContents :
       /\ op' = "decode" /\ value' = Nil /\ bytes' = b
       /\ ret' = rb_decode(b)
  /\ UNCHANGED <<request, statics, bigdecimal_defined, overflow_checks, pc, enc_buf, enc_added,
                 enc_ret, enc_prev, dec_data, dec_pos, dec_ret, dec_calls, dec_values>>

NextProcess == ProcessLoad \/ ProcessRequireBigDecimal \/ ProcessEncode \/ ProcessDecode

SpecProcess == InitProcess /\ [][NextProcess]_vars

(***************************************************************************)
(* One HTTP request, buffered (make_request) or streaming                  *)
(* (make_streaming_request): the CRT event loop thread fires the callbacks *)
(* while the calling thread waits on the Condvar and, in streaming mode,   *)
(* runs the loop of make_streaming_request.  A step is what a thread does  *)
(* under one hold of the Mutex, or between two holds.  The CRT library is  *)
(* not part of the sources: its callbacks come in the order of the HTTP    *)
(* protocol, which the documentation of make_streaming_request relies on   *)
(* (no body callback before the first header callback, nothing after the   *)
(* completion callback), and a stream that was not created or not          *)
(* activated fires no callback.                                            *)
(***************************************************************************)
MaxHeaderCallbacks == 2
MaxBodyCallbacks == 2

\* the response statuses aws_http_stream_get_incoming_response_status reports
Statuses == {200, 404}

\* the non-zero CRT error codes a request fails with
FailureCodes == {-1, 2058}

\* the body callbacks fired so far
BodiesSent == Len(pushed)

\* Condvar::notify_one: a thread blocked in wait goes on to take the lock again
notify_one(t) == IF t = "parked" THEN "wait" ELSE t

\* let ctx = &*(user_data as *const RequestContext): a callback reads the context
read_ctx == ctx_read_after_cleanup' = (ctx_read_after_cleanup \/ ctx = "freed")

\* build_request, then aws_http_connection_manager_acquire_connection
InitRequest ==
  /\ overflow_checks \in BOOLEAN
  /\ CodecIdle
  /\ EncoderIdle
  /\ DecoderIdle
  /\ ProcessReady
  /\ \E streaming \in BOOLEAN : state = RequestState(streaming)
  /\ crt = "acquire"
  /\ thread = "wait"
  /\ headers_delivered = FALSE
  /\ drained = <<>>
  /\ calls = <<>>
  /\ http_ret = NoCall
  /\ ctx = "live"
  /\ pushed = <<>>
  /\ released = 0
  /\ completions = 0
  /\ ctx_read_after_cleanup = FALSE

\* make_streaming_request: RequestOptions { streaming: true }
InitStreaming == InitRequest /\ state.streaming

\* on_connection_acquired_with_ctx up to aws_http_stream_activate: a failure
\* to acquire completes the request; else the connection is stored and the
\* stream is made and activated, either of which can fail
OnConnectionAcquired ==
  /\ crt = "acquire"
  /\ read_ctx
  /\ \/ \E err \in FailureCodes :
          /\ state' = [state EXCEPT !.error_code = err, !.complete = TRUE]
          /\ completions' = completions + 1
          /\ thread' = notify_one(thread)
          /\ crt' = "done"
     \/ /\ state' = [state EXCEPT !.connection = "connection"]
        /\ crt' \in {"stream_null", "activate_failed", "active"}
        /\ UNCHANGED <<completions, thread>>
  /\ UNCHANGED <<codec, headers_delivered, drained, calls, http_ret, ctx, pushed, released>>

\* on_connection_acquired_with_ctx releasing the connection only when the
\* stream was not created
ReleaseAfterNullStreamOnly ==
  /\ crt \in {"stream_null", "activate_failed"}
  /\ read_ctx
  /\ released' = IF crt = "stream_null" THEN released + 1 ELSE released
  /\ crt' = "signal_failure"
  /\ UNCHANGED <<codec, state, thread, headers_delivered, drained, calls, http_ret, ctx,
                 pushed, completions>>

\* on_connection_acquired_with_ctx after a failed make_request or activate:
\* aws_http_connection_manager_release_connection
ReleaseAfterFailure ==
  /\ crt \in {"stream_null", "activate_failed"}
  /\ read_ctx
  /\ released' = released + 1
  /\ crt' = "signal_failure"
  /\ UNCHANGED <<codec, state, thread, headers_delivered, drained, calls, http_ret, ctx,
                 pushed, completions>>

\* on_connection_acquired_with_ctx after a failed make_request or activate:
\* error_code, complete = true, notify_one
SignalFailure ==
  /\ crt = "signal_failure"
  /\ read_ctx
  /\ \E err \in FailureCodes :
       state' = [state EXCEPT !.error_code = err, !.complete = TRUE]
  /\ completions' = completions + 1
  /\ thread' = notify_one(thread)
  /\ crt' = "done"
  /\ UNCHANGED <<codec, headers_delivered, drained, calls, http_ret, ctx, pushed, released>>

\* on_response_headers, called with one header
OnResponseHeaders ==
  /\ crt = "active"
  /\ Len(state.headers) < MaxHeaderCallbacks
  /\ read_ctx
  /\ \E status \in Statuses :
       state' = [state EXCEPT !.status_code = IF @ = 0 THEN status ELSE @,
                              !.headers = Append(@, Len(@) + 1)]
  /\ UNCHANGED <<codec, crt, thread, headers_delivered, drained, calls, http_ret, ctx,
                 pushed, released, completions>>

\* on_response_body
OnResponseBody ==
  /\ crt = "active"
  /\ state.headers # <<>>
  /\ BodiesSent < MaxBodyCallbacks
  /\ read_ctx
  /\ pushed' = Append(pushed, BodiesSent + 1)
  /\ IF state.streaming
     THEN /\ state' = [state EXCEPT !.chunks = Append(@, BodiesSent + 1)]
          /\ thread' = notify_one(thread)
     ELSE /\ state' = [state EXCEPT !.body = Append(@, BodiesSent + 1)]
          /\ thread' = thread
  /\ UNCHANGED <<codec, crt, headers_delivered, drained, calls, http_ret, ctx, released,
                 completions>>

\* on_stream_complete up to the release of the connection
OnStreamComplete ==
  /\ crt = "active"
  /\ read_ctx
  /\ released' = IF state.connection # "null" THEN released + 1 ELSE released
  /\ crt' = "signal_complete"
  /\ UNCHANGED <<codec, state, thread, headers_delivered, drained, calls, http_ret, ctx,
                 pushed, completions>>

\* on_stream_complete setting the flag without a notify_one
SignalCompleteWithoutNotify ==
  /\ crt = "signal_complete"
  /\ read_ctx
  /\ \E err \in {0} \cup FailureCodes :
       state' = [state EXCEPT !.error_code = err, !.complete = TRUE]
  /\ completions' = completions + 1
  /\ crt' = "done"
  /\ UNCHANGED <<codec, thread, headers_delivered, drained, calls, http_ret, ctx, pushed,
                 released>>

\* on_stream_complete: error_code, complete = true, notify_one
SignalComplete ==
  /\ crt = "signal_complete"
  /\ read_ctx
  /\ \E err \in {0} \cup FailureCodes :
       state' = [state EXCEPT !.error_code = err, !.complete = TRUE]
  /\ completions' = completions + 1
  /\ thread' = notify_one(thread)
  /\ crt' = "done"
  /\ UNCHANGED <<codec, headers_delivered, drained, calls, http_ret, ctx, pushed, released>>

\* Condvar::wait returning without a notify_one, as the standard library allows
SpuriousWakeup ==
  /\ thread = "parked"
  /\ thread' = "wait"
  /\ UNCHANGED <<codec, state, crt, headers_delivered, drained, calls, http_ret, ctx, pushed,
                 released, completions, ctx_read_after_cleanup>>

\* wait_for_completion: one test of the loop under the lock, then wait or return
WaitForCompletion ==
  /\ thread = "wait"
  /\ ~state.streaming
  /\ thread' = IF state.complete THEN "cleanup" ELSE "parked"
  /\ UNCHANGED <<codec, state, crt, headers_delivered, drained, calls, http_ret, ctx, pushed,
                 released, completions, ctx_read_after_cleanup>>

\* make_request: cleanup_request_context
Cleanup ==
  /\ thread = "cleanup"
  /\ ctx' = "freed"
  /\ thread' = "extract"
  /\ UNCHANGED <<codec, state, crt, headers_delivered, drained, calls, http_ret, pushed,
                 released, completions, ctx_read_after_cleanup>>

\* make_request: the result read under the lock
ExtractResult ==
  /\ thread = "extract"
  /\ http_ret' = IF state.error_code # 0 THEN <<"err", state.error_code>>
                 ELSE <<"ok", state.status_code, state.headers, state.body>>
  /\ state' = IF state.error_code # 0 THEN state
              ELSE [state EXCEPT !.headers = <<>>, !.body = <<>>]
  /\ thread' = "returned"
  /\ UNCHANGED <<codec, crt, headers_delivered, drained, calls, ctx, pushed, released,
                 completions, ctx_read_after_cleanup>>

\* wait_for_chunk_or_completion: one test of the loop under the lock, then wait
\* or return
WaitForChunkOrCompletion ==
  /\ thread = "wait"
  /\ state.streaming
  /\ thread' = IF state.complete \/ state.chunks # <<>> THEN "lock" ELSE "parked"
  /\ UNCHANGED <<codec, state, crt, headers_delivered, drained, calls, http_ret, ctx, pushed,
                 released, completions, ctx_read_after_cleanup>>

\* the loop of make_streaming_request queueing nothing of what it drains when
\* the request is complete
DrainDropsAtCompletion ==
  /\ thread = "lock"
  /\ drained' = [status_code |-> state.status_code, resp_headers |-> state.headers,
                 chunks |-> IF state.complete THEN <<>> ELSE state.chunks,
                 complete |-> state.complete, error_code |-> state.error_code]
  /\ state' = [state EXCEPT !.chunks = <<>>]
  /\ thread' = "headers"
  /\ UNCHANGED <<codec, crt, headers_delivered, calls, http_ret, ctx, pushed, released,
                 completions, ctx_read_after_cleanup>>

\* the loop of make_streaming_request: drain the chunks under the lock
Drain ==
  /\ thread = "lock"
  /\ drained' = [status_code |-> state.status_code, resp_headers |-> state.headers,
                 chunks |-> state.chunks, complete |-> state.complete,
                 error_code |-> state.error_code]
  /\ state' = [state EXCEPT !.chunks = <<>>]
  /\ thread' = "headers"
  /\ UNCHANGED <<codec, crt, headers_delivered, calls, http_ret, ctx, pushed, released,
                 completions, ctx_read_after_cleanup>>

\* the loop delivering the headers on every pass
DeliverHeadersEveryPass ==
  /\ thread = "headers"
  /\ IF drained.status_code > 0
     THEN /\ calls' = Append(calls, <<"on_headers", drained.status_code, drained.resp_headers>>)
          /\ headers_delivered' = TRUE
     ELSE UNCHANGED <<calls, headers_delivered>>
  /\ thread' = "chunks"
  /\ UNCHANGED <<codec, state, crt, drained, http_ret, ctx, pushed, released, completions,
                 ctx_read_after_cleanup>>

\* the loop: if !headers_delivered && status_code > 0 { on_headers(..) }
DeliverHeaders ==
  /\ thread = "headers"
  /\ IF ~headers_delivered /\ drained.status_code > 0
     THEN /\ calls' = Append(calls, <<"on_headers", drained.status_code, drained.resp_headers>>)
          /\ headers_delivered' = TRUE
     ELSE UNCHANGED <<calls, headers_delivered>>
  /\ thread' = "chunks"
  /\ UNCHANGED <<codec, state, crt, drained, http_ret, ctx, pushed, released, completions,
                 ctx_read_after_cleanup>>

\* the loop: for chunk in &chunks { on_chunk(chunk) }, one chunk
YieldChunk ==
  /\ thread = "chunks"
  /\ drained.chunks # <<>>
  /\ calls' = Append(calls, <<"on_chunk", Head(drained.chunks)>>)
  /\ drained' = [drained EXCEPT !.chunks = Tail(@)]
  /\ UNCHANGED <<codec, state, crt, thread, headers_delivered, http_ret, ctx, pushed,
                 released, completions, ctx_read_after_cleanup>>

\* the loop cleaning up on every pass
CompleteOrLoopCleansUpEarly ==
  /\ thread = "chunks"
  /\ drained.chunks = <<>>
  /\ ctx' = "freed"
  /\ IF ~drained.complete
     THEN thread' = "wait" /\ UNCHANGED <<calls, http_ret>>
     ELSE /\ thread' = "returned"
          /\ IF drained.error_code # 0
             THEN http_ret' = <<"err", drained.error_code>> /\ calls' = calls
             ELSE /\ http_ret' = <<"ok">>
                  /\ calls' =
                       IF ~headers_delivered /\ drained.status_code > 0
                       THEN Append(calls,
                              <<"on_headers", drained.status_code, drained.resp_headers>>)
                       ELSE calls
  /\ UNCHANGED <<codec, state, crt, headers_delivered, drained, pushed, released,
                 completions, ctx_read_after_cleanup>>

\* the loop: if complete { cleanup_request_context; .. return } else the next pass
CompleteOrLoop ==
  /\ thread = "chunks"
  /\ drained.chunks = <<>>
  /\ IF ~drained.complete
     THEN thread' = "wait" /\ UNCHANGED <<calls, http_ret, ctx>>
     ELSE /\ thread' = "returned"
          /\ ctx' = "freed"
          /\ IF drained.error_code # 0
             THEN http_ret' = <<"err", drained.error_code>> /\ calls' = calls
             ELSE /\ http_ret' = <<"ok">>
                  /\ calls' =
                       IF ~headers_delivered /\ drained.status_code > 0
                       THEN Append(calls,
                              <<"on_headers", drained.status_code, drained.resp_headers>>)
                       ELSE calls
  /\ UNCHANGED <<codec, state, crt, headers_delivered, drained, pushed, released,
                 completions, ctx_read_after_cleanup>>

\* the steps of the thread in make_streaming_request
StreamingThread ==
  WaitForChunkOrCompletion \/ Drain \/ DeliverHeaders \/ YieldChunk \/ CompleteOrLoop

\* the steps of the thread in make_request
BufferedThread == WaitForCompletion \/ Cleanup \/ ExtractResult

NextStreaming ==
  \/ OnConnectionAcquired \/ ReleaseAfterFailure \/ SignalFailure
  \/ OnResponseHeaders \/ OnResponseBody \/ OnStreamComplete \/ SignalComplete
  \/ SpuriousWakeup
  \/ WaitForChunkOrCompletion \/ Drain \/ DeliverHeaders \/ YieldChunk \/ CompleteOrLoop

SpecStreaming == InitStreaming /\ [][NextStreaming]_vars

NextRequest ==
  \/ OnConnectionAcquired \/ ReleaseAfterFailure \/ SignalFailure
  \/ OnResponseHeaders \/ OnResponseBody \/ OnStreamComplete \/ SignalComplete
  \/ SpuriousWakeup
  \/ WaitForChunkOrCompletion \/ Drain \/ DeliverHeaders \/ YieldChunk \/ CompleteOrLoop
  \/ WaitForCompletion \/ Cleanup \/ ExtractResult

SpecRequest == InitRequest /\ [][NextRequest]_vars

\* fair scheduling of the calling thread: when it can take a step it takes
\* one; a wait on the Condvar returns of itself only by chance, and the CRT
\* fires a callback only when the network gives it reason to
SpecRequestFair == SpecRequest /\ WF_vars(StreamingThread \/ BufferedThread)

\* the values the round trip is claimed for
RECURSIVE RoundTripValue(_)
RoundTripValue(v) ==
  CASE v[1] \in {"Nil", "Bool", "Int", "Str"} -> TRUE
    [] v[1] = "Array" -> \A i \in 1..Len(v[2]) : RoundTripValue(v[2][i])
    [] v[1] = "Hash" ->
         \A i \in 1..Len(v[2]) : RoundTripValue(v[2][i][1]) /\ RoundTripValue(v[2][i][2])
    [] v[1] = "Tagged" -> v[2] \notin {<<1>>, <<2>>, <<3>>, <<4>>} /\ RoundTripValue(v[3])
    [] OTHER -> FALSE

(***************************************************************************)
(* C1.  Round trip: for every value built from nil, booleans, integers,    *)
(* byte strings, text strings, arrays, maps with keys of any of these      *)
(* types, and Tagged values with a tag other than 1-4, encode succeeds and *)
(* decode of what it returned succeeds and returns an equal value.         *)
(***************************************************************************)
C1_RoundTrip ==
  (op = "encode" /\ RoundTripValue(value)) =>
    /\ pc = "encoded" => ret[1] = "ok"
    /\ pc = "done" => ret = <<"ok", value>>

\* the bytes after the head byte: the smallest of 0, 1, 2, 4, 8 that holds v
HeadWidth(v) ==
  CASE Len(v) = 0 \/ (Len(v) = 1 /\ v[1] <= 23) -> 0
    [] Len(v) = 1 /\ v[1] >= 24 -> 1
    [] Len(v) = 2 -> 2
    [] Len(v) \in 3..4 -> 4
    [] OTHER -> 8

(***************************************************************************)
(* C2.  write_head is shortest-form: for every major type m and unsigned   *)
(* 64-bit v it emits the one byte m|v when v <= 23, and otherwise m|24,    *)
(* m|25, m|26 or m|27 followed by the 1, 2, 4 or 8 bytes of the smallest   *)
(* of these widths that holds v; the following bytes are v, big-endian.    *)
(***************************************************************************)
C2_HeadShortestForm ==
  (pc = "done" /\ op = "write_head") =>
    LET m == value[2]
        v == value[3]
        k == HeadWidth(v)
        info == CASE k = 0 -> ToInt(v) [] k = 1 -> 24 [] k = 2 -> 25 [] k = 4 -> 26
                  [] k = 8 -> 27
    IN  /\ Len(ret) = 1 + k
        /\ ret[1] = m + info
        /\ \A i \in 1..k : ret[1 + i] = Digit(v, k - i)

C2_Witness ==
  /\ pc = "done" /\ op = "write_head"
  /\ value = <<"head", MAJOR_ARRAY, P2(32)>>
  /\ ret = <<MAJOR_ARRAY + 27, 0, 0, 0, 1, 0, 0, 0, 0>>

\* the value of the head (v, or -1 - v) fits in 64 bits
FitsHead(v) == Len(IF v[2] THEN NatSub(v[3], One) ELSE v[3]) <= 8

(***************************************************************************)
(* C3.  An integer v with -2^64 <= v <= 2^64 - 1 is encoded as a plain     *)
(* major 0 or major 1 integer with no tag; Tag 2 or Tag 3 is emitted only  *)
(* for an integer whose magnitude does not fit in 64 bits.                 *)
(***************************************************************************)
C3_PlainIntegerWithin64Bits ==
  (op = "encode" /\ pc = "encoded" /\ value[1] = "Int") =>
    /\ FitsHead(value) =>
         bytes[1] \div 32 = (IF value[2] THEN 1 ELSE 0)
    /\ bytes[1] \in {MAJOR_TAG + TAG_BIGNUM, MAJOR_TAG + TAG_NEG_BIGNUM} => ~FitsHead(value)

(***************************************************************************)
(* C4.  Truncation: when an item declares n bytes (the count field of a    *)
(* head, the bytes of a string, the payload of a float) and fewer remain,  *)
(* decode fails with OutOfBytesError reporting n requested and the number  *)
(* of bytes remaining, for every n in 0..2^64-1, and in no other way.      *)
(***************************************************************************)
C4_TruncationIsOutOfBytes ==
  (pc = "done" /\ op = "decode") =>
    \A c \in ValueContexts, t \in Truncated :
      bytes = c \o t.bytes => ret = OutOfBytes(t.n, t.avail)

(***************************************************************************)
(* C5.  The module-level decode returns a value only when decoding one     *)
(* top-level item leaves the cursor at the end of the input; when the item *)
(* ends before the end it fails with ExtraBytesError, whose count is the   *)
(* input length minus the bytes the item took.                             *)
(***************************************************************************)
C5_DecodeConsumesAll ==
  (pc = "done" /\ op = "decode") =>
    /\ \A i \in Items, t \in UpTo(TrailBytes, MaxTrail) :
         bytes = i \o t =>
           IF t = <<>> THEN ret[1] = "ok" ELSE ret = ExtraBytes(Len(t))
    /\ ret[1] = "ok" =>
         /\ decode_value(bytes, 0)[1] = "ok"
         /\ decode_value(bytes, 0)[3] = Len(bytes)
         /\ ret[2] = decode_value(bytes, 0)[2]

C5_Witness ==
  /\ pc = "done" /\ op = "decode"
  /\ bytes = <<159, 1, 2, 255, 255, 0>>
  /\ ret = ExtraBytes(2)

(***************************************************************************)
(* C6.  A Decoder constructed over the encodings of v1..vn (n >= 2) one    *)
(* after the other returns vi from its i-th decode call, for i in 1..n.    *)
(***************************************************************************)
C6_SuccessiveValues ==
  (Len(dec_values) >= 2 /\ dec_calls \in 1..Len(dec_values)) =>
    dec_ret = <<"ok", dec_values[dec_calls]>>

AllAddsSucceeded == \A i \in 1..Len(enc_added) : enc_added[i][2]

(***************************************************************************)
(* C7.  After successful calls add(v1), ..., add(vn) on an Encoder,        *)
(* bytes() is encode(v1) ++ ... ++ encode(vn); bytes() leaves the buffer   *)
(* as it was (so a second bytes() returns the same), and a successful add  *)
(* returns the encoder.                                                    *)
(***************************************************************************)
C7_BytesIsConcatenation ==
  /\ (enc_ret[1] = "bytes" /\ AllAddsSucceeded) =>
       enc_ret[2] = Concat([i \in 1..Len(enc_added) |-> rb_encode(enc_added[i][1])[2]])
  /\ enc_ret[1] = "bytes" => enc_buf = enc_prev /\ enc_ret[2] = enc_buf
  /\ (enc_ret[1] = "self") => (enc_added # <<>> /\ enc_added[Len(enc_added)][2])

C7_Witness ==
  /\ enc_added = <<(<<Integer(FALSE, <<24>>), TRUE>>), (<<Str("utf8", <<97>>), TRUE>>)>>
  /\ enc_ret = <<"bytes", <<24, 24, 97, 97>>>>
  /\ enc_prev = <<24, 24, 97, 97>>

(***************************************************************************)
(* C8.  Encoder.add is all-or-nothing: when add(v) fails, the encoder's    *)
(* buffer is what it was before the call.                                  *)
(***************************************************************************)
C8_FailedAddLeavesBuffer == enc_ret[1] = "err" => enc_buf = enc_prev

(***************************************************************************)
(* C9.  A head byte whose additional information is 28, 29 or 30, of any   *)
(* major type 0..7 and in any position an item or a chunk is read at,      *)
(* makes decode fail with UnexpectedAdditionalInformationError.            *)
(***************************************************************************)
C9_ReservedInfoError ==
  (pc = "done" /\ op = "decode") =>
    \A c \in Contexts, m \in Majors, ai \in ReservedInfo, f \in {<<>>, <<1, 1>>} :
      bytes = c \o <<m + ai>> \o f => ret = DecErr("UnexpectedAdditionalInformationError")

\* the bytes before an item where no indefinite container can end
BreakContexts ==
  {<<>>, <<129>>, <<130, 1>>, <<161>>, <<161, 97, 97>>, <<191, 97, 97>>,
   <<197>>, <<193>>, <<194>>, <<195>>, <<196>>}

(***************************************************************************)
(* C10.  A break byte 0xFF where an item is expected and no indefinite     *)
(* container can end (the top level, an element of a definite array, a key *)
(* or a value of a definite map, the value of an indefinite map's pair,    *)
(* the content of a tag, tags 2, 3 and 4 included) makes decode fail with  *)
(* UnexpectedBreakCodeError.                                               *)
(***************************************************************************)
C10_UnexpectedBreak ==
  (pc = "done" /\ op = "decode") =>
    \A c \in BreakContexts, f \in {<<>>, <<1, 1>>} :
      bytes = c \o <<255>> \o f => ret = DecErr("UnexpectedBreakCodeError")

\* no Tagged of the value, at any depth, carries tag 1, 2, 3 or 4
RECURSIVE NoReservedTagged(_)
NoReservedTagged(v) ==
  CASE v[1] = "Array" -> \A i \in 1..Len(v[2]) : NoReservedTagged(v[2][i])
    [] v[1] = "Hash" ->
         \A i \in 1..Len(v[2]) : NoReservedTagged(v[2][i][1]) /\ NoReservedTagged(v[2][i][2])
    [] v[1] = "Tagged" -> v[2] \notin {<<1>>, <<2>>, <<3>>, <<4>>} /\ NoReservedTagged(v[3])
    [] v[1] = "Time" -> NoReservedTagged(v[2])
    [] OTHER -> TRUE

\* x is the value v or a part of it
RECURSIVE Contains(_, _)
Contains(v, x) ==
  \/ v = x
  \/ CASE v[1] = "Array" -> \E i \in 1..Len(v[2]) : Contains(v[2][i], x)
        [] v[1] = "Hash" ->
             \E i \in 1..Len(v[2]) : Contains(v[2][i][1], x) \/ Contains(v[2][i][2], x)
        [] v[1] = "Tagged" -> Contains(v[3], x)
        [] OTHER -> FALSE

(***************************************************************************)
(* C11.  No Tagged value in a decoded result, at any depth, carries tag 1, *)
(* 2, 3 or 4; and every major-6 item of a well-formed input whose tag      *)
(* number t is none of these decodes to Tagged(t, inner), where inner is   *)
(* the decoding of the one item that follows the tag's head.               *)
(***************************************************************************)
C11_TagDecoding ==
  (pc = "done" /\ op = "decode") =>
    /\ ret[1] = "ok" => NoReservedTagged(ret[2])
    /\ \A p \in TagPositions, h \in TagHeads, c \in TagContents :
         bytes = p[1] \o h[1] \o c \o p[2] =>
           /\ ret[1] = "ok"
           /\ Contains(ret[2], Tagged(h[2], decode_value(c, 0)[2]))

\* the f64 (its 8 bytes) that has the value of an f32 (its 4 bytes)
F32ToF64(b) ==
  LET sign == b[1] \div 128
      exp == (b[1] % 128) * 2 + b[2] \div 128
      frac == Norm(<<b[4], b[3], b[2] % 128>>)
      p == BitLength(frac) - 1
      e == CASE exp = 255 -> 2047
             [] exp = 0 /\ frac = <<>> -> 0
             [] exp = 0 /\ frac # <<>> -> 1023 + p - 149
             [] OTHER -> exp - 127 + 1023
      m == IF exp = 0 /\ frac # <<>> THEN NatShl(NatSub(frac, P2(p)), 52 - p)
           ELSE NatShl(frac, 29)
  IN  <<sign * 128 + e \div 16, (e % 16) * 16 + Digit(m, 6)>> \o [i \in 1..6 |-> Digit(m, 6 - i)]

\* the f64s that are the value of an f32: 1.5, -0.0, 2^-149, the largest f32,
\* 1 + 2^-23, -infinity
SingleFloats ==
  {<<63, 248, 0, 0, 0, 0, 0, 0>>, <<128, 0, 0, 0, 0, 0, 0, 0>>, <<54, 160, 0, 0, 0, 0, 0, 0>>,
   <<71, 239, 255, 255, 224, 0, 0, 0>>, <<63, 240, 0, 0, 32, 0, 0, 0>>,
   <<255, 240, 0, 0, 0, 0, 0, 0>>}

\* the NaNs
NaNFloats == {<<127, 248, 0, 0, 0, 0, 0, 0>>, <<127, 240, 0, 0, 0, 0, 0, 1>>}

(***************************************************************************)
(* C12.  Float size selection: a float that is NaN or does not round-trip  *)
(* through 32-bit precision is encoded as marker 0xFB and its 8 bytes; a   *)
(* float is encoded as marker 0xFA and 4 bytes exactly when it round-trips *)
(* through 32-bit precision.                                               *)
(***************************************************************************)
C12_FloatSizeSelection ==
  (op = "encode" /\ pc = "encoded" /\ value[1] = "Float") =>
    /\ value[3] \notin SingleFloats => bytes = <<DOUBLE_MARKER>> \o value[3]
    /\ (Len(bytes) = 5 /\ bytes[1] = FLOAT_MARKER) <=> value[3] \in SingleFloats

(***************************************************************************)
(* C12, amended.  A float that is NaN is encoded as marker 0xFA and the 4  *)
(* bytes of a 32-bit NaN; a float that round-trips through 32-bit          *)
(* precision is encoded as marker 0xFA and the 4 bytes of the 32-bit float *)
(* of the same value; every other float is encoded as marker 0xFB and its  *)
(* 8 bytes.                                                                *)
(***************************************************************************)
C12_FloatSizeNaNSingle ==
  (op = "encode" /\ pc = "encoded" /\ value[1] = "Float") =>
    LET v == value[3]
        payload == SubSeq(bytes, 2, Len(bytes))
    IN  CASE v \in NaNFloats ->
               /\ Len(bytes) = 5 /\ bytes[1] = FLOAT_MARKER
               /\ (payload[1] % 128) * 2 + payload[2] \div 128 = 255
               /\ <<payload[2] % 128, payload[3], payload[4]>> # <<0, 0, 0>>
          [] v \in SingleFloats ->
               /\ Len(bytes) = 5 /\ bytes[1] = FLOAT_MARKER
               /\ F32ToF64(payload) = v
          [] OTHER -> bytes = <<DOUBLE_MARKER>> \o v

C12_Witness ==
  /\ op = "encode" /\ pc = "encoded"
  /\ value = Float(<<127, 240, 0, 0, 0, 0, 0, 1>>)
  /\ bytes = <<250, 127, 192, 0, 0>>

(***************************************************************************)
(* C13.  Bignum round trip: when encode writes an integer v with Tag 2 or  *)
(* Tag 3, the output is the tag head (Tag 2 for v >= 0, Tag 3 for v < 0)   *)
(* followed by a definite-length byte string that has no leading zero byte *)
(* and holds, big-endian, v or -1 - v; and decode of the output returns v  *)
(* with its sign.                                                          *)
(***************************************************************************)
C13_BignumRoundTrip ==
  (op = "encode" /\ value[1] = "Int" /\ pc \in {"encoded", "done"}
     /\ bytes[1] \in {MAJOR_TAG + TAG_BIGNUM, MAJOR_TAG + TAG_NEG_BIGNUM}) =>
    /\ bytes[1] = MAJOR_TAG + (IF value[2] THEN TAG_NEG_BIGNUM ELSE TAG_BIGNUM)
    /\ \E n \in 1..Len(bytes) :
         LET head == IF n <= 23 THEN <<MAJOR_BYTES + n>> ELSE <<MAJOR_BYTES + 24, n>>
             payload == SubSeq(bytes, Len(bytes) - n + 1, Len(bytes))
         IN  /\ bytes = <<bytes[1]>> \o head \o payload
             /\ payload[1] # 0
             /\ FromBE(payload) = (IF value[2] THEN NatSub(value[3], One) ELSE value[3])
    /\ pc = "done" => ret = <<"ok", value>>

C13_Witness ==
  /\ op = "encode" /\ pc = "done"
  /\ value = Integer(TRUE, NatAdd(P2(64), One))
  /\ bytes = <<195, 73, 1, 0, 0, 0, 0, 0, 0, 0, 0>>
  /\ ret = <<"ok", value>>

\* the result of decode_value is the integer v, read up to `end`
DecodesTo(r, v, end) == r[1] = "ok" /\ r[2] = v /\ r[3] = end

\* the item at the cursor of e is the integer mantissa and ends the data, after
\* the integer exponent that e is the decoding of
DecimalPairIs(data, e, exponent, mantissa) ==
  /\ e[1] = "ok" /\ e[2] = exponent
  /\ DecodesTo(decode_value(data, e[3]), mantissa, Len(data))

(***************************************************************************)
(* C14.  A finite decimal with sign s, digit string d and exponent e is    *)
(* encoded as Tag 4 and an array of 2 elements, the first of which encodes *)
(* the integer e - len(d) and the second the integer value(d) * s, for a   *)
(* digit string of any length: never a truncated or zeroed mantissa.       *)
(***************************************************************************)
C14_DecimalMantissaExact ==
  (op = "encode" /\ pc = "encoded" /\ value[1] = "BigDecimal" /\ value[2] = "finite") =>
    /\ SubSeq(bytes, 1, 2) = <<MAJOR_TAG + TAG_BIGDEC, MAJOR_ARRAY + 2>>
    /\ DecimalPairIs(bytes, decode_value(bytes, 2), IntOf(value[5] - Len(value[4])),
                     Integer(value[3] < 0 /\ ParseDigits(value[4], <<>>) # <<>>,
                             ParseDigits(value[4], <<>>)))

(***************************************************************************)
(* C15.  The cached class references and encoding indexes are written only *)
(* during init: once init has run, no call of encode or decode, in any     *)
(* order, changes any of them.                                             *)
(***************************************************************************)
C15_StaticsWrittenOnlyByInit == [][pc = "call" => statics' = statics]_vars

\* the value holds, at some depth, a value of a type encode does not support
RECURSIVE Unsupported(_)
Unsupported(v) ==
  CASE v[1] \in {"Object", "Data"} -> TRUE
    [] v[1] = "Array" -> \E i \in 1..Len(v[2]) : Unsupported(v[2][i])
    [] v[1] = "Hash" -> \E i \in 1..Len(v[2]) : Unsupported(v[2][i][1]) \/ Unsupported(v[2][i][2])
    [] v[1] = "Tagged" -> Unsupported(v[3])
    [] OTHER -> FALSE

\* what is written for a value up to its first unsupported part: the heads of
\* the containers that hold it and the whole of every element before it
RECURSIVE WrittenBeforeFailure(_)

RECURSIVE WrittenOfItems(_)
WrittenOfItems(items) ==
  IF items = <<>> THEN <<>>
  ELSE IF Unsupported(Head(items)) THEN WrittenBeforeFailure(Head(items))
  ELSE rb_encode(Head(items))[2] \o WrittenOfItems(Tail(items))

WrittenBeforeFailure(v) ==
  CASE v[1] = "Array" -> write_head(<<>>, MAJOR_ARRAY, FromInt(Len(v[2]))) \o WrittenOfItems(v[2])
    [] v[1] = "Hash" ->
         write_head(<<>>, MAJOR_MAP, FromInt(Len(v[2])))
           \o WrittenOfItems([i \in 1..2 * Len(v[2]) |-> v[2][(i + 1) \div 2][2 - (i % 2)]])
    [] v[1] = "Tagged" -> write_head(<<>>, MAJOR_TAG, v[2]) \o WrittenBeforeFailure(v[3])
    [] OTHER -> <<>>

HeadExtra(data, pos) ==
  CASE data[pos + 1] % 32 < 24 -> 0
    [] data[pos + 1] % 32 = 24 -> 1
    [] data[pos + 1] % 32 = 25 -> 2
    [] data[pos + 1] % 32 = 26 -> 4
    [] data[pos + 1] % 32 = 27 -> 8
    [] OTHER -> -1

\* the count of the head at pos, of at most 2 bytes
HeadCount(data, pos) ==
  CASE data[pos + 1] % 32 < 24 -> data[pos + 1] % 32
    [] data[pos + 1] % 32 = 24 -> data[pos + 2]
    [] data[pos + 1] % 32 = 25 -> 256 * data[pos + 2] + data[pos + 3]
    [] OTHER -> -1

\* the end of the item at pos when it and every item in it has a head of
\* definite length and all its bytes; -1 otherwise
RECURSIVE DefiniteEnd(_, _)

\* the end of n items one after the other
RECURSIVE DefiniteEndOfItems(_, _, _)
DefiniteEndOfItems(data, pos, n) ==
  IF n = 0 \/ pos = -1 THEN pos
  ELSE DefiniteEndOfItems(data, DefiniteEnd(data, pos), n - 1)

DefiniteEnd(data, pos) ==
  IF pos >= Len(data) \/ HeadExtra(data, pos) = -1
       \/ pos + 1 + HeadExtra(data, pos) > Len(data) THEN -1
  ELSE LET major == data[pos + 1] \div 32
           after == pos + 1 + HeadExtra(data, pos)
       IN  CASE major \in {0, 1, 7} -> after
             [] major \in {2, 3} ->
                  IF HeadCount(data, pos) = -1 \/ after + HeadCount(data, pos) > Len(data)
                  THEN -1 ELSE after + HeadCount(data, pos)
             [] major = 4 ->
                  IF HeadCount(data, pos) = -1 THEN -1
                  ELSE DefiniteEndOfItems(data, after, HeadCount(data, pos))
             [] major = 5 ->
                  IF HeadCount(data, pos) = -1 THEN -1
                  ELSE DefiniteEndOfItems(data, after, 2 * HeadCount(data, pos))
             [] major = 6 -> DefiniteEnd(data, after)

\* the end of the item at pos when it is the value v with every string, array
\* and map of v under a head of its byte length, element count or pair count;
\* -1 otherwise
RECURSIVE DefiniteOf(_, _, _)

RECURSIVE DefiniteOfItems(_, _, _)
DefiniteOfItems(items, data, pos) ==
  IF items = <<>> \/ pos = -1 THEN pos
  ELSE DefiniteOfItems(Tail(items), data, DefiniteOf(Head(items), data, pos))

DefiniteOf(v, data, pos) ==
  IF DefiniteEnd(data, pos) = -1 THEN -1
  ELSE LET major == data[pos + 1] \div 32
           after == pos + 1 + HeadExtra(data, pos)
       IN  CASE v[1] \in {"Str", "Sym"} ->
                  IF major = (IF v[1] = "Str" /\ v[2] = "binary" THEN 2 ELSE 3)
                       /\ HeadCount(data, pos) = Len(v[Len(v)])
                       /\ SubSeq(data, after + 1, after + Len(v[Len(v)])) = v[Len(v)]
                  THEN DefiniteEnd(data, pos) ELSE -1
             [] v[1] = "Array" ->
                  IF major = 4 /\ HeadCount(data, pos) = Len(v[2])
                  THEN DefiniteOfItems(v[2], data, after) ELSE -1
             [] v[1] = "Hash" ->
                  IF major = 5 /\ HeadCount(data, pos) = Len(v[2])
                  THEN DefiniteOfItems(
                         [i \in 1..2 * Len(v[2]) |-> v[2][(i + 1) \div 2][2 - (i % 2)]],
                         data, after)
                  ELSE -1
             [] v[1] = "Tagged" -> IF major = 6 THEN DefiniteOf(v[3], data, after) ELSE -1
             [] OTHER -> DefiniteEnd(data, pos)

(***************************************************************************)
(* C18.  The output of encode holds no head of indefinite length and no    *)
(* break byte that ends an item: it is one item in which every string,     *)
(* array and map of the value has a head of definite length that states    *)
(* its byte length, element count or pair count.                           *)
(***************************************************************************)
C18_DefiniteLengthsOnly ==
  (op = "encode" /\ pc = "encoded" /\ ret[1] = "ok") =>
    DefiniteOf(value, bytes, 0) = Len(bytes)

C18_Witness ==
  /\ op = "encode" /\ pc = "encoded"
  /\ value = Array(<<Hash(<<(<<Str("utf8", <<97>>), Array(<<Nil>>)>>)>>)>>)
  /\ bytes = <<129, 161, 97, 97, 129, 246>>

(***************************************************************************)
(* C19.  In a streaming request on_headers is called at most once, and     *)
(* every call of on_chunk comes after a call of on_headers, whatever the   *)
(* interleaving of the header, body and completion callbacks with the      *)
(* calling thread.                                                         *)
(***************************************************************************)
C19_HeadersOnceBeforeChunks ==
  /\ Cardinality({i \in DOMAIN calls : calls[i][1] = "on_headers"}) <= 1
  /\ \A i \in DOMAIN calls :
       calls[i][1] = "on_chunk" => \E j \in 1..(i - 1) : calls[j][1] = "on_headers"

\* the chunks arrive on two passes of the loop, the second after the headers
\* were delivered, and the request completes
C19_Witness ==
  /\ thread = "chunks" /\ headers_delivered /\ drained.complete
  /\ drained.chunks = <<2>>
  /\ calls = <<(<<"on_headers", 200, <<1>> >>), (<<"on_chunk", 1>>)>>

\* b is well-formed UTF-8: shortest forms only, no surrogates, at most U+10FFFF
RECURSIVE ValidUtf8(_)
ValidUtf8(b) ==
  IF b = <<>> THEN TRUE
  ELSE IF b[1] < 128 THEN ValidUtf8(Tail(b))
  ELSE IF b[1] \in 194..223
       THEN /\ Len(b) >= 2 /\ b[2] \in 128..191
            /\ ValidUtf8(SubSeq(b, 3, Len(b)))
  ELSE IF b[1] \in 224..239
       THEN /\ Len(b) >= 3
            /\ b[2] \in (IF b[1] = 224 THEN 160..191
                          ELSE IF b[1] = 237 THEN 128..159 ELSE 128..191)
            /\ b[3] \in 128..191
            /\ ValidUtf8(SubSeq(b, 4, Len(b)))
  ELSE IF b[1] \in 240..244
       THEN /\ Len(b) >= 4
            /\ b[2] \in (IF b[1] = 240 THEN 144..191
                          ELSE IF b[1] = 244 THEN 128..143 ELSE 128..191)
            /\ b[3] \in 128..191 /\ b[4] \in 128..191
            /\ ValidUtf8(SubSeq(b, 5, Len(b)))
  ELSE FALSE

\* every text string in v is well-formed UTF-8
RECURSIVE TextValid(_)
TextValid(v) ==
  CASE v[1] = "Str" -> v[2] = "utf8" => ValidUtf8(v[3])
    [] v[1] = "Array" -> \A i \in 1..Len(v[2]) : TextValid(v[2][i])
    [] v[1] = "Hash" -> \A i \in 1..Len(v[2]) : TextValid(v[2][i][1]) /\ TextValid(v[2][i][2])
    [] v[1] = "Tagged" -> TextValid(v[3])
    [] OTHER -> TRUE

(***************************************************************************)
(* C20.  decode returns no text string whose bytes are not UTF-8, whether  *)
(* the item is of definite length or the concatenation of the chunks of an *)
(* item of indefinite length; a byte string of definite length comes back  *)
(* as the binary string of its bytes, whatever they are.                   *)
(***************************************************************************)
C20_TextValidatedOnDecode ==
  (op = "decode" /\ pc = "done" /\ ret[1] = "ok") =>
    /\ TextValid(ret[2])
    /\ (bytes[1] \in 64..87 /\ Len(bytes) = bytes[1] - 63) =>
         ret[2] = Str("binary", Tail(bytes))

\* encode wrote the negative integer `value` as Tag 3 and a byte string of
\* definite length
EncodedWithTag3 ==
  /\ op = "encode" /\ pc = "encoded" /\ value[1] = "Int" /\ value[2]
  /\ bytes[1] = MAJOR_TAG + TAG_NEG_BIGNUM
  /\ bytes[2] \div 32 = 2
  /\ HeadCount(bytes, 1) = Len(bytes) - 2 - HeadExtra(bytes, 1)

\* the bytes of the byte string after the tag
Tag3Payload == SubSeq(bytes, 3 + HeadExtra(bytes, 1), Len(bytes))

(***************************************************************************)
(* C21.  As claimed: for a negative integer v that encode writes with Tag  *)
(* 3, the byte string after the tag holds the big-endian bytes of abs(v).  *)
(***************************************************************************)
C21_Tag3HoldsAbs ==
  EncodedWithTag3 => FromBE(Tag3Payload) = value[3]

(***************************************************************************)
(* C21, amended.  For a negative integer v that encode writes with Tag 3,  *)
(* the byte string after the tag holds the big-endian bytes of -1 - v,     *)
(* that is abs(v) - 1, the sign being carried only by the tag.             *)
(***************************************************************************)
C21_Tag3HoldsMinusOneMinusV ==
  EncodedWithTag3 => FromBE(Tag3Payload) = NatSub(value[3], One)

\* -2^64, whose abs takes 9 bytes, is written with the 8 bytes of 2^64 - 1
C21_Witness ==
  /\ EncodedWithTag3
  /\ value = Integer(TRUE, P2(64))
  /\ bytes = <<195, 72, 255, 255, 255, 255, 255, 255, 255, 255>>

(***************************************************************************)
(* C22.  decode of Tag 2 or Tag 3 succeeds only when the item after the    *)
(* tag is a byte string (major type 2): before an item of another major    *)
(* type it fails, and does not read the bytes that follow as a magnitude.  *)
(***************************************************************************)
C22_BignumNeedsByteString ==
  (op = "decode" /\ pc = "done" /\ ret[1] = "ok"
     /\ bytes[1] \in {MAJOR_TAG + TAG_BIGNUM, MAJOR_TAG + TAG_NEG_BIGNUM}) =>
    Len(bytes) >= 2 /\ bytes[2] \div 32 = 2

(***************************************************************************)
(* C23.  decode of Tag 4 fails with the generic Error whenever the item    *)
(* after the tag is not an array (major type 4) of exactly 2 elements, also*)
(* when the item is no array and the count of its head is 2.               *)
(***************************************************************************)
C23_BigdecNeedsArrayOfTwo ==
  (op = "decode" /\ pc = "done" /\ bytes \in BigdecInputs
     /\ bytes[2] # MAJOR_ARRAY + 2) =>
    ret[1] = "err" /\ ret[2] = "Error"

(***************************************************************************)
(* C24.  For every head of major type 0 or 1 with count c, in any of the   *)
(* five head sizes, decode returns c for major type 0 and -1 - c for major *)
(* type 1, exactly, also for counts above 2^63 - 1.                        *)
(***************************************************************************)
C24_IntegerExact ==
  (op = "decode" /\ pc = "done") =>
    \A h \in IntegerHeads :
      /\ bytes = h.head => ret = <<"ok", Integer(FALSE, h.count)>>
      /\ bytes = <<MAJOR_NEGATIVE + h.head[1]>> \o Tail(h.head) =>
           ret = <<"ok", Integer(TRUE, NatAdd(h.count, One))>>

\* -1 - (2^64 - 1) = -2^64
C24_Witness ==
  /\ op = "decode" /\ pc = "done"
  /\ bytes = <<59, 255, 255, 255, 255, 255, 255, 255, 255>>
  /\ ret = <<"ok", Integer(TRUE, P2(64))>>

(***************************************************************************)
(* The decoder without the inlined short-text paths: every item, a map key *)
(* too, goes through the dispatcher, and every text string of definite     *)
(* length through dec_read_info, dec_read_count and dec_take.              *)
(***************************************************************************)
RECURSIVE generic_value(_, _)

RECURSIVE generic_array_items(_, _, _, _)
generic_array_items(data, pos, left, arr) ==
  IF left = <<>> THEN DecOk(Array(arr), pos)
  ELSE LET with(item) ==
             IF item[1] # "ok" THEN item
             ELSE generic_array_items(data, item[3], NatSub(left, One), Append(arr, item[2]))
       IN  with(generic_value(data, pos))

generic_map_pair(data, pos, hash) ==
  LET with_key(key) ==
        LET with_val(val) ==
              IF val[1] # "ok" THEN val
              ELSE DecOk(rb_hash_aset(hash, key[2], val[2]), val[3])
        IN  IF key[1] # "ok" THEN key ELSE with_val(generic_value(data, key[3]))
  IN  with_key(generic_value(data, pos))

RECURSIVE generic_map_pairs(_, _, _, _)
generic_map_pairs(data, pos, left, hash) ==
  IF left = <<>> THEN DecOk(Hash(hash), pos)
  ELSE LET with(pair) ==
             IF pair[1] # "ok" THEN pair
             ELSE generic_map_pairs(data, pair[3], NatSub(left, One), pair[2])
       IN  with(generic_map_pair(data, pos, hash))

RECURSIVE generic_indef_array_loop(_, _, _)
generic_indef_array_loop(data, pos, arr) ==
  LET with_ib(ib) ==
        LET with_item(item) ==
              IF item[1] # "ok" THEN item
              ELSE generic_indef_array_loop(data, item[3], Append(arr, item[2]))
        IN  IF ib[1] # "ok" THEN ib
            ELSE IF ib[2] = 255 THEN DecOk(Array(arr), pos + 1)
            ELSE with_item(generic_value(data, pos))
  IN  with_ib(dec_peek(data, pos))

RECURSIVE generic_indef_map_loop(_, _, _)
generic_indef_map_loop(data, pos, hash) ==
  LET with_ib(ib) ==
        LET with_pair(pair) ==
              IF pair[1] # "ok" THEN pair
              ELSE generic_indef_map_loop(data, pair[3], pair[2])
        IN  IF ib[1] # "ok" THEN ib
            ELSE IF ib[2] = 255 THEN DecOk(Hash(hash), pos + 1)
            ELSE with_pair(generic_map_pair(data, pos, hash))
  IN  with_ib(dec_peek(data, pos))

generic_tag(data, pos) ==
  LET with_tag(h) ==
        LET with_item(item) == IF item[1] # "ok" THEN item ELSE TimeAt(item[2], item[3])
            with_inner(inner) ==
              IF inner[1] # "ok" THEN inner ELSE DecOk(Tagged(h[2][2], inner[2]), inner[3])
        IN  IF h[1] # "ok" THEN h
            ELSE CASE h[2][2] = FromInt(TAG_EPOCH) -> with_item(generic_value(data, h[3]))
                   [] h[2][2] = FromInt(TAG_BIGNUM) ->
                        decode_bignum_raw(data, h[3], TAG_BIGNUM)
                   [] h[2][2] = FromInt(TAG_NEG_BIGNUM) ->
                        decode_bignum_raw(data, h[3], TAG_NEG_BIGNUM)
                   [] h[2][2] = FromInt(TAG_BIGDEC) -> decode_bigdec_raw(data, h[3])
                   [] OTHER -> with_inner(generic_value(data, h[3]))
  IN  with_tag(dec_read_head(data, pos))

generic_value(data, pos) ==
  IF pos >= Len(data) THEN decode_value(data, pos)
  ELSE LET major == data[pos + 1] \div 32
           add_info == data[pos + 1] % 32
           with_len(h, items(_, _, _, _)) ==
             IF h[1] # "ok" THEN h ELSE items(data, h[3], h[2][2], <<>>)
       IN  CASE major = 3 /\ add_info # 31 -> decode_string_raw(data, pos, "utf8")
             [] major = 4 /\ add_info = 31 -> generic_indef_array_loop(data, pos + 1, <<>>)
             [] major = 4 /\ add_info # 31 ->
                  IF dec_read_head(data, pos)[1] = "ok"
                       /\ AryCapaRefused(dec_read_head(data, pos)[2][2])
                  THEN DecErr("ArgumentError")
                  ELSE with_len(dec_read_head(data, pos), generic_array_items)
             [] major = 5 /\ add_info = 31 -> generic_indef_map_loop(data, pos + 1, <<>>)
             [] major = 5 /\ add_info # 31 ->
                  with_len(dec_read_head(data, pos), generic_map_pairs)
             [] major = 6 -> generic_tag(data, pos)
             [] OTHER -> decode_value(data, pos)

\* the same value and cursor, or the same kind of error
SameOutcome(a, b) == a[1] = b[1] /\ a[2] = b[2] /\ (a[1] = "ok" => a[3] = b[3])

(***************************************************************************)
(* C25.  The inlined short-text paths of the decoder cannot be observed:   *)
(* for every input the value decoded, the kind of error and the final      *)
(* cursor are those of the decoder that sends every string and every map   *)
(* key through decode_value.                                               *)
(***************************************************************************)
C25_FastPathsNotObservable ==
  (op = "decode" /\ pc = "done") =>
    SameOutcome(decode_value(bytes, 0), generic_value(bytes, 0))

\* the errors of decode_value
ValueErrors ==
  {"OutOfBytesError", "UnexpectedAdditionalInformationError", "UnexpectedBreakCodeError",
   "Error"}

(***************************************************************************)
(* C28.  A decode call on a Decoder that fails inside the value (with      *)
(* OutOfBytesError, UnexpectedAdditionalInformationError,                  *)
(* UnexpectedBreakCodeError or the generic Error) leaves the cursor where  *)
(* it was, and the call after a call that failed so fails the same way; the*)
(* cursor stays within 0..length of the input and never decreases.         *)
(***************************************************************************)
C28_CursorOnFailure ==
  [][/\ (dec_ret'[1] = "err" /\ dec_ret'[2] \in ValueErrors) => dec_pos' = dec_pos
     /\ (dec_ret[1] = "err" /\ dec_ret[2] \in ValueErrors) => dec_ret' = dec_ret
     /\ dec_pos' >= dec_pos
     /\ dec_pos' \in 0..Len(dec_data')]_vars

\* nil is decoded (with ExtraBytesError), then two calls fail on the truncated
\* item at cursor 1
C28_Witness ==
  /\ dec_data = <<246, 24>> /\ dec_calls = 3 /\ dec_pos = 1
  /\ dec_ret[1] = "err" /\ dec_ret[2] = "OutOfBytesError"

\* the chunks on_chunk was called with, in the order of the calls
Yielded ==
  LET chunk_calls == SelectSeq(calls, LAMBDA c : c[1] = "on_chunk")
  IN  [i \in 1..Len(chunk_calls) |-> chunk_calls[i][2]]

(***************************************************************************)
(* C26.  In a streaming request every chunk the body callback pushed is    *)
(* yielded to on_chunk exactly once and in the order of arrival before     *)
(* make_streaming_request returns, whatever the interleaving, also when    *)
(* the request completes (with or without an error) while chunks are       *)
(* queued: at every moment the chunks yielded are the first of the chunks  *)
(* pushed, and at the return they are all of them.                         *)
(***************************************************************************)
C26_ChunksYieldedOnceInOrder ==
  /\ Len(Yielded) <= Len(pushed)
  /\ Yielded = SubSeq(pushed, 1, Len(Yielded))
  /\ thread = "returned" => Yielded = pushed

\* the request completed with an error after two chunks were pushed, and
\* both were yielded before the return
C26_Witness ==
  /\ thread = "returned" /\ http_ret[1] = "err"
  /\ pushed = <<1, 2>>
  /\ drained.complete
  /\ calls = <<(<<"on_headers", 200, <<1>> >>), (<<"on_chunk", 1>>), (<<"on_chunk", 2>>)>>

(***************************************************************************)
(* C27.  The thread waiting in wait_for_completion or                      *)
(* wait_for_chunk_or_completion misses no wakeup: once the CRT has         *)
(* reported the failure to acquire a connection, to create or to activate  *)
(* the stream, or the completion of the stream (the complete flag is set), *)
(* the thread, scheduled fairly, leaves the wait and make_request or       *)
(* make_streaming_request returns, with an error exactly when the error    *)
(* code recorded is not 0.                                                 *)
(***************************************************************************)
C27_NoMissedWakeup ==
  /\ state.complete ~> thread = "returned"
  /\ [](thread = "returned" => (http_ret[1] = "err" <=> state.error_code # 0))

\* a request that failed before a stream was active has returned its error
C27_Witness ==
  /\ thread = "returned" /\ state.complete /\ state.error_code = -1
  /\ http_ret = <<"err", -1>>
  /\ state.connection = "connection" /\ pushed = <<>>

(***************************************************************************)
(* C29.  A connection acquired from the manager is released to it exactly  *)
(* once on every path (the stream not created, the stream not activated,   *)
(* the stream complete), and before the completion is signalled to the     *)
(* waiting thread; a request that acquired no connection releases none.    *)
(***************************************************************************)
C29_ConnectionReleasedOnce ==
  /\ released <= 1
  /\ state.connection = "null" => released = 0
  /\ state.complete => released = (IF state.connection = "null" THEN 0 ELSE 1)

\* the stream was not activated: the connection is released, the failure
\* signalled and the error returned
C29_Witness ==
  /\ state.connection = "connection" /\ released = 1 /\ state.complete
  /\ state.error_code = 2058 /\ state.status_code = 0
  /\ thread = "returned" /\ ~state.streaming

(***************************************************************************)
(* C30.  The RequestContext is cleaned up only after the complete flag was *)
(* set, and the flag is set at most once for a request, so that no         *)
(* callback reads the context after cleanup_request_context ran, whatever  *)
(* the interleaving of the callbacks with the waiting thread.              *)
(***************************************************************************)
C30_CleanupAfterCompletion ==
  /\ ctx = "freed" => state.complete
  /\ completions <= 1
  /\ ~ctx_read_after_cleanup

\* a streaming request whose stream completed after a chunk: the context is
\* freed by the pass of the loop that saw the flag
C30_Witness ==
  /\ ctx = "freed" /\ state.complete /\ completions = 1 /\ crt = "done"
  /\ state.streaming /\ pushed = <<1>> /\ thread = "returned"

====
